---- MODULE Spec2Model ----
(***************************************************************************)
(* A model of terminal-ai: the AI providers (hosted, local, tool-enabled), *)
(* the MCP tool gateway, and the interactive prompt loop.                  *)
(*                                                                         *)
(* Text is modelled as a sequence of one-character tokens over Alphabet.   *)
(*   "{" "}" "," ":"   the JSON structural characters                      *)
(*   "q"               the double quote                                    *)
(*   "w"               a space                                             *)
(*   "k"               a backtick (code fences)                            *)
(*   "[" "]" "\\"      brackets and the backslash                          *)
(*   "T" "F" "N"       the words true, false, null                         *)
(*   "c" "e" "d"       the words command, explanation, dangerous           *)
(*   anything else     another letter or word without special characters   *)
(***************************************************************************)
EXTENDS Integers, Sequences, FiniteSets, TLC

----------------------------------------------------------------------------
(* Bounds of the model.                                                    *)

\* Longest text put before and after an embedded JSON region in a reply.
MaxPad == 1
\* Most getCommandSuggestion calls made on one provider instance.
MaxRequests == 2
\* Most tool rounds the backend asks for within one getCommandSuggestion.
MaxToolRounds == 1
MaxExecutes == 2

----------------------------------------------------------------------------
(* JSON values, JSON.parse, JSON.stringify and String.prototype.match.     *)

Min(S) == CHOOSE x \in S : \A y \in S : x <= y
Max(S) == CHOOSE x \in S : \A y \in S : x >= y

\* A JavaScript value: a string, one of the literals true/false/null, an
\* object (an ordered list of members), or undefined.
Str(s) == [type |-> "str", s |-> s, m |-> <<>>]
Lit(l) == [type |-> "lit", s |-> <<l>>, m |-> <<>>]
Obj(m) == [type |-> "obj", s |-> <<>>, m |-> m]
Arr(m) == [type |-> "arr", s |-> <<>>, m |-> m]
Undefined == [type |-> "undefined", s |-> <<>>, m |-> <<>>]
JTrue == Lit("T")
JFalse == Lit("F")
JNull == Lit("N")

Member(k, v) == [k |-> k, v |-> v]

\* obj[key] = v on an ordered JS object: an existing key keeps its place.
PutMember(m, k, v) ==
  IF \E i \in 1..Len(m) : m[i].k = k
  THEN [i \in 1..Len(m) |-> IF m[i].k = k THEN Member(k, v) ELSE m[i]]
  ELSE Append(m, Member(k, v))

RECURSIVE SkipWs(_, _)
SkipWs(t, i) == IF i <= Len(t) /\ t[i] = "w" THEN SkipWs(t, i + 1) ELSE i

ParseFail == [ok |-> FALSE, val |-> Undefined, next |-> 0]
ParseOk(v, n) == [ok |-> TRUE, val |-> v, next |-> n]

RECURSIVE ScanString(_, _, _)
\* The characters of a string literal from t[j] to its closing quote; a
\* backslash escapes a quote or a backslash and nothing else of the alphabet.
ScanString(t, j, acc) ==
  IF j > Len(t) THEN ParseFail
  ELSE IF t[j] = "q" THEN ParseOk(Str(acc), j + 1)
  ELSE IF t[j] = "\\"
       THEN IF j + 1 <= Len(t) /\ t[j + 1] \in {"q", "\\"}
            THEN ScanString(t, j + 2, Append(acc, t[j + 1]))
            ELSE ParseFail
  ELSE ScanString(t, j + 1, Append(acc, t[j]))

\* A string literal starting at the quote t[i].
ParseString(t, i) == ScanString(t, i + 1, <<>>)

RECURSIVE ParseValue(_, _)
RECURSIVE ParseMembers(_, _, _)
RECURSIVE ParseElements(_, _, _)

\* The elements of an array, from the first one at or after t[i] up to and
\* including the closing bracket.
ParseElements(t, i, acc) ==
  LET v == ParseValue(t, SkipWs(t, i))
  IN IF ~v.ok THEN ParseFail
     ELSE LET acc2 == Append(acc, v.val)
              ni == SkipWs(t, v.next)
          IN IF ni > Len(t) THEN ParseFail
             ELSE IF t[ni] = "," THEN ParseElements(t, ni + 1, acc2)
             ELSE IF t[ni] = "]" THEN ParseOk(Arr(acc2), ni + 1)
             ELSE ParseFail

\* The members of an object, from the first key at or after t[i] up to and
\* including the closing brace.
ParseMembers(t, i, acc) ==
  LET ki == SkipWs(t, i)
  IN IF ki > Len(t) \/ t[ki] # "q" THEN ParseFail
     ELSE LET key == ParseString(t, ki)
          IN IF ~key.ok THEN ParseFail
             ELSE LET ci == SkipWs(t, key.next)
                  IN IF ci > Len(t) \/ t[ci] # ":" THEN ParseFail
                     ELSE LET v == ParseValue(t, SkipWs(t, ci + 1))
                          IN IF ~v.ok THEN ParseFail
                             ELSE LET acc2 == PutMember(acc, key.val.s, v.val)
                                      ni == SkipWs(t, v.next)
                                  IN IF ni > Len(t) THEN ParseFail
                                     ELSE IF t[ni] = "," THEN ParseMembers(t, ni + 1, acc2)
                                     ELSE IF t[ni] = "}" THEN ParseOk(Obj(acc2), ni + 1)
                                     ELSE ParseFail

\* A JSON value starting at t[i].
ParseValue(t, i) ==
  IF i > Len(t) THEN ParseFail
  ELSE IF t[i] \in {"T", "F", "N"} THEN ParseOk(Lit(t[i]), i + 1)
  ELSE IF t[i] = "q" THEN ParseString(t, i)
  ELSE IF t[i] = "{"
       THEN LET j == SkipWs(t, i + 1)
            IN IF j <= Len(t) /\ t[j] = "}" THEN ParseOk(Obj(<<>>), j + 1)
               ELSE ParseMembers(t, i + 1, <<>>)
  ELSE IF t[i] = "["
       THEN LET j == SkipWs(t, i + 1)
            IN IF j <= Len(t) /\ t[j] = "]" THEN ParseOk(Arr(<<>>), j + 1)
               ELSE ParseElements(t, i + 1, <<>>)
  ELSE ParseFail

\* JSON.parse(t): [ok, val]; ok = FALSE stands for the SyntaxError it throws.
JSONParse(t) ==
  LET v == ParseValue(t, SkipWs(t, 1))
  IN IF v.ok /\ SkipWs(t, v.next) = Len(t) + 1
     THEN [ok |-> TRUE, val |-> v.val]
     ELSE [ok |-> FALSE, val |-> Undefined]

RECURSIVE Escape(_)
\* The characters of a string as JSON.stringify writes them.
Escape(s) ==
  IF s = <<>> THEN <<>>
  ELSE (IF Head(s) \in {"q", "\\"} THEN <<"\\", Head(s)>> ELSE <<Head(s)>>)
       \o Escape(Tail(s))

RECURSIVE JSONStringify(_)
RECURSIVE StringifyMembers(_, _)
RECURSIVE StringifyElements(_, _)

StringifyElements(m, i) ==
  IF i > Len(m) THEN <<>>
  ELSE (IF i > 1 THEN <<",">> ELSE <<>>)
       \o JSONStringify(m[i]) \o StringifyElements(m, i + 1)

StringifyMembers(m, i) ==
  IF i > Len(m) THEN <<>>
  ELSE (IF i > 1 THEN <<",">> ELSE <<>>)
       \o <<"q">> \o Escape(m[i].k) \o <<"q", ":">> \o JSONStringify(m[i].v)
       \o StringifyMembers(m, i + 1)

\* JSON.stringify(v), for a value JSON.parse produced.
JSONStringify(v) ==
  IF v.type = "str" THEN <<"q">> \o Escape(v.s) \o <<"q">>
  ELSE IF v.type = "lit" THEN v.s
  ELSE IF v.type = "arr" THEN <<"[">> \o StringifyElements(v.m, 1) \o <<"]">>
  ELSE <<"{">> \o StringifyMembers(v.m, 1) \o <<"}">>

\* text.match(/\{[\s\S]*\}/): the region from the first "{" to the last "}",
\* or no match.
MatchBraces(t) ==
  LET opens == {i \in 1..Len(t) : t[i] = "{"}
      closes == {j \in 1..Len(t) : t[j] = "}"}
  IN IF opens # {} /\ closes # {} /\ Min(opens) < Max(closes)
     THEN [found |-> TRUE, text |-> SubSeq(t, Min(opens), Max(closes))]
     ELSE [found |-> FALSE, text |-> <<>>]

\* v.key in JavaScript, for v not null: undefined unless v is an object that
\* has the key.
GetProp(v, key) ==
  IF v.type = "obj" /\ \E i \in 1..Len(v.m) : v.m[i].k = key
  THEN (CHOOSE mm \in {v.m[i] : i \in 1..Len(v.m)} : mm.k = key).v
  ELSE Undefined

\* !v in JavaScript.
Falsy(v) ==
  \/ v.type = "undefined"
  \/ v = JNull
  \/ v = JFalse
  \/ v = Str(<<>>)
  \/ v = Lit("0")

\* a || b
OrElse(a, b) == IF Falsy(a) THEN b ELSE a

----------------------------------------------------------------------------
(* Ordered maps (JavaScript Map and object): sequences of Member(k, v).    *)

Reverse(sq) == [i \in 1..Len(sq) |-> sq[Len(sq) + 1 - i]]

HasKey(m, k) == \E i \in 1..Len(m) : m[i].k = k
Get(m, k) == (CHOOSE mm \in {m[i] : i \in 1..Len(m)} : mm.k = k).v
Keys(m) == {m[i].k : i \in 1..Len(m)}
Values(m) == {m[i].v : i \in 1..Len(m)}

----------------------------------------------------------------------------
(* Inputs of the model.                                                    *)

\* Most Client objects one MCPManager creates (one per connectToServer).
MaxConnects == 3
\* Most tool calls forwarded to servers.
MaxCalls == 2

ServerNames == {"fs", "git"}
ToolNames == {"r", "g"}
\* Tool names a caller may ask for: the declared ones and one no server has.
CalledNames == ToolNames \cup {"u"}
\* A server's answer to listTools: the declared tool names in order, or a failure.
Listings == {<<>>, <<"r">>, <<"g">>, <<"r", "g">>}

VARIABLES
  \* MCPManager
  clients,      \* Map server name -> Client (a connection number)
  tools,        \* Map tool name -> MCPTool
  opened,       \* Client objects created so far
  closeCalled,  \* connections on which close() was called
  connected,    \* connections whose client.connect(transport) resolved
  toolsList,    \* what the last client.listTools() resolved to (toolsList.tools)
  calls,        \* tool calls forwarded to servers, in order
  gwResult      \* how the manager's last operation ended

VARIABLES
  \* The AI provider (AnthropicProvider, OllamaProvider or AnthropicMCPProvider)
  variant,              \* which class the provider is
  mcpManager,           \* AnthropicMCPProvider: whether setMCPManager was called
  conversationHistory,  \* Message[]
  ppc,                  \* "idle", or "awaiting" the backend inside getCommandSuggestion
  sent,                 \* the request last sent to the backend
  response,             \* the backend response last received
  usedTools,            \* getCommandSuggestion's local usedTools
  result,               \* how the last getCommandSuggestion ended
  returned,             \* the array the last getHistory() returned, as its caller holds it
  pOp,                  \* the provider operation called last
  nreq,                 \* getCommandSuggestion calls so far
  rounds,               \* tool rounds of the current getCommandSuggestion
  userRequest,          \* the userRequest argument of the last getCommandSuggestion
  sinceClear            \* getCommandSuggestion calls since the history was last empty by
                        \* construction or clearHistory

VARIABLES
  \* TerminalPrompt and its CommandExecutor
  isRunning,         \* TerminalPrompt.isRunning
  lpc,               \* where start() is: "new", "prompt", "thinking", "confirm",
                     \* "executing", "returned"
  suggestion,        \* handleUserRequest's suggestion
  answer,            \* confirm.execute of the confirmation asked last
  display,           \* what the current iteration printed, in order
  executed,          \* the commands handed to executor.execute, in order
  execResult,        \* the ExecutionResult of the last execute
  workingDirectory,  \* CommandExecutor.workingDirectory
  lineRead,          \* response.input of the prompt answered last
  cycleError         \* the error raised in the iteration run last ("" when none)

VARIABLES
  \* Start-up (src/ai/factory.ts)
  env,       \* process.env: the variables the configuration is read from
  config,    \* the AIConfig handed to createAIProvider
  created    \* how createAIProvider ended

VARIABLES
  \* CommandExecutor (src/terminal/executor.ts), as its caller sees it
  xOp,           \* the last method called: "new", "set", "get", "execute"
  lastDirGiven,  \* the directory last given to the constructor or to setWorkingDirectory
  gotDir,        \* what the last getWorkingDirectory returned
  execCwd,       \* the cwd option of the last shell invocation
  execRaised,    \* whether the last execute raised
  execOutcome    \* how the last shell invocation ended

VARIABLES
  \* The process (src/unnamed/part_001: main)
  mpc,        \* where main() is: "start", "validated", "checking", "running"; or the
              \* process is gone: "exited", "killed"
  processExit, \* the code the process exited with (-1: none)
  mainOut     \* what main printed last

VARIABLES
  \* getSystemContext (src/utils/context.ts)
  snapshotOf,   \* the call: [workingDir, listing]
  snapshot,     \* its completion: [raised, text]
  \* loadMCPConfig, getDefaultMCPServers, getMCPServers (src/mcp/config.ts)
  configFiles,  \* the file at each of the four search locations
  mcpEnv,       \* process.env: MCP_FILESYSTEM_ENABLED, MCP_GIT_ENABLED
  mcpResult     \* the completion of the last call: [op, raised, value, logged]

VARIABLES
  \* MCPManager.initialize
  serverConfigs,  \* this.serverConfigs: the names of the configured servers
  ipc             \* where initialize() is: "idle", "running", "returned", "threw"

iVars == <<serverConfigs, ipc>>
uVars == <<snapshotOf, snapshot, configFiles, mcpEnv, mcpResult>>
mVars == <<mpc, processExit, mainOut>>
xVars == <<xOp, lastDirGiven, gotDir, execCwd, execRaised, execOutcome>>
fVars == <<env, config, created>>
gwVars == <<clients, tools, opened, closeCalled, connected, toolsList, calls, gwResult>>
lVars == <<isRunning, lpc, suggestion, answer, display, executed, execResult,
           workingDirectory, lineRead, cycleError>>
pVars == <<variant, mcpManager, conversationHistory, ppc, sent, response, usedTools,
           result, returned, pOp, nreq, rounds, userRequest, sinceClear>>

vars == <<clients, tools, opened, closeCalled, connected, toolsList, calls, gwResult,
          variant, mcpManager, conversationHistory, ppc, sent, response, usedTools,
          result, returned, pOp, nreq, rounds, userRequest, sinceClear,
          isRunning, lpc, suggestion, answer, display, executed, execResult,
          workingDirectory, env, config, created,
          xOp, lastDirGiven, gotDir, execCwd, execRaised, execOutcome, lineRead,
          cycleError, mpc, processExit, mainOut,
          snapshotOf, snapshot, configFiles, mcpEnv, mcpResult, serverConfigs, ipc>>

----------------------------------------------------------------------------
(* MCPManager (src/mcp/manager.ts).                                        *)

MCPTool(name, serverName) == [name |-> name, serverName |-> serverName]

GwResult(op, server, tool, status, threw, logged) ==
  [op |-> op, server |-> server, tool |-> tool, status |-> status,
   threw |-> threw, logged |-> logged]

RECURSIVE RegisterToolsKeepingFirst(_, _, _)
\* A registration that leaves an already registered name to its first owner.
RegisterToolsKeepingFirst(tl, listing, serverName) ==
  IF listing = <<>> THEN tl
  ELSE RegisterToolsKeepingFirst(
         IF HasKey(tl, Head(listing)) THEN tl
         ELSE Append(tl, Member(Head(listing), MCPTool(Head(listing), serverName))),
         Tail(listing), serverName)

RECURSIVE RegisterTools(_, _, _)
\* for (const tool of toolsList.tools) this.tools.set(tool.name, {...})
RegisterTools(tl, listing, serverName) ==
  IF listing = <<>> THEN tl
  ELSE RegisterTools(PutMember(tl, Head(listing), MCPTool(Head(listing), serverName)),
                     Tail(listing), serverName)

\* The maps after connectToServer: nothing is stored when client.connect
\* rejects; the client is stored before listTools is awaited.
\* A connect that keeps the connection already stored under the name.
ConnectClientsKeepingFirst(cl, name, conn, connectOk) ==
  IF connectOk /\ ~HasKey(cl, name) THEN PutMember(cl, name, conn) ELSE cl

ConnectClients(cl, name, conn, connectOk) ==
  IF connectOk THEN PutMember(cl, name, conn) ELSE cl

\* A registration that does not depend on the connection being stored.
ConnectToolsUnconnected(tl, name, connectOk, listOk, listing) ==
  IF listOk THEN RegisterTools(tl, listing, name) ELSE tl

ConnectTools(tl, name, connectOk, listOk, listing) ==
  IF connectOk /\ listOk THEN RegisterTools(tl, listing, name) ELSE tl

\* connectToServer(config): every failure is caught and logged.
ConnectToServer(name, connectOk, listOk, listing) ==
  /\ opened < MaxConnects
  /\ opened' = opened + 1
  /\ clients' = ConnectClients(clients, name, opened + 1, connectOk)
  /\ tools' = ConnectTools(tools, name, connectOk, listOk, listing)
  /\ gwResult' = GwResult("connect", name, "",
                          IF ~connectOk THEN "connectFailed"
                          ELSE IF ~listOk THEN "listFailed" ELSE "ok",
                          FALSE, IF connectOk /\ listOk THEN 0 ELSE 1)
  /\ connected' = (IF connectOk THEN connected \cup {opened + 1} ELSE connected)
  /\ toolsList' = (IF connectOk /\ listOk THEN listing ELSE toolsList)
  /\ UNCHANGED <<closeCalled, calls>>
  /\ UNCHANGED pVars
  /\ UNCHANGED lVars
  /\ UNCHANGED fVars
  /\ UNCHANGED iVars
  /\ UNCHANGED uVars
  /\ UNCHANGED mVars
  /\ UNCHANGED xVars

\* A lookup that reports a missing tool as a missing server.
CallToolStatusWrongError(tl, cl, toolName, serverOk) ==
  IF ~HasKey(tl, toolName) THEN "ServerNotConnected"
  ELSE IF ~HasKey(cl, Get(tl, toolName).serverName) THEN "ServerNotConnected"
  ELSE IF serverOk THEN "ok" ELSE "CallFailed"

\* How callTool(toolName, args) ends: the lookups of lines 71-79, then the
\* server's own answer.
CallToolStatus(tl, cl, toolName, serverOk) ==
  IF ~HasKey(tl, toolName) THEN "ToolNotFound"
  ELSE IF ~HasKey(cl, Get(tl, toolName).serverName) THEN "ServerNotConnected"
  ELSE IF serverOk THEN "ok" ELSE "CallFailed"

CallForwarded(status) == status \in {"ok", "CallFailed"}

\* The record of a forwarded call: client.callTool({name, arguments}).
ForwardedCall(tl, cl, toolName) ==
  [server |-> Get(tl, toolName).serverName,
   conn |-> Get(cl, Get(tl, toolName).serverName),
   tool |-> toolName]

\* A callTool that hands the call on before it has looked the tool up.
CallsAfterUnchecked(cs, tl, cl, toolName, status) ==
  IF CallForwarded(status) THEN Append(cs, ForwardedCall(tl, cl, toolName))
  ELSE Append(cs, [server |-> "", conn |-> 0, tool |-> toolName])

CallsAfter(cs, tl, cl, toolName, status) ==
  IF CallForwarded(status) THEN Append(cs, ForwardedCall(tl, cl, toolName)) ELSE cs

CallToolResult(tl, toolName, status) ==
  GwResult("callTool",
           IF HasKey(tl, toolName) THEN Get(tl, toolName).serverName ELSE "",
           toolName, status, status # "ok", 0)

\* callTool(toolName, args)
CallTool(toolName, serverOk) ==
  LET status == CallToolStatus(tools, clients, toolName, serverOk)
  IN /\ CallForwarded(status) => Len(calls) < MaxCalls
     /\ calls' = CallsAfter(calls, tools, clients, toolName, status)
     /\ gwResult' = CallToolResult(tools, toolName, status)
     /\ UNCHANGED <<clients, tools, opened, closeCalled, connected, toolsList>>
     /\ UNCHANGED pVars
     /\ UNCHANGED lVars
     /\ UNCHANGED fVars
     /\ UNCHANGED iVars
     /\ UNCHANGED uVars
     /\ UNCHANGED mVars
     /\ UNCHANGED xVars

\* disconnect(): close() on every client, failures logged; both maps cleared.
Disconnect(failing) ==
  /\ failing \subseteq Values(clients)
  /\ closeCalled' = closeCalled \cup Values(clients)
  /\ clients' = <<>>
  /\ tools' = <<>>
  /\ gwResult' = GwResult("disconnect", "", "", "ok", FALSE, Cardinality(failing))
  /\ UNCHANGED <<opened, connected, toolsList, calls>>
  /\ UNCHANGED pVars
  /\ UNCHANGED lVars
  /\ UNCHANGED fVars
  /\ UNCHANGED iVars
  /\ UNCHANGED uVars
  /\ UNCHANGED mVars
  /\ UNCHANGED xVars

\* A connectToServer without its try: the failure leaves initialize.
InitializeStopsOnFailure(status) == IF status = "ok" THEN "running" ELSE "threw"

\* await this.connectToServer(config): connectToServer catches whatever
\* fails in it, so initialize goes on to the next configuration.
InitializeGoesOn(status) == "running"

\* initialize(), one turn of its for: the next configured server is connected.
InitializeNext(connectOk, listOk, listing) ==
  /\ ipc = "running"
  /\ opened < Len(serverConfigs)
  /\ opened' = opened + 1
  /\ clients' = ConnectClients(clients, serverConfigs[opened + 1], opened + 1, connectOk)
  /\ tools' = ConnectTools(tools, serverConfigs[opened + 1], connectOk, listOk, listing)
  /\ gwResult' = GwResult("connect", serverConfigs[opened + 1], "",
                          IF ~connectOk THEN "connectFailed"
                          ELSE IF ~listOk THEN "listFailed" ELSE "ok",
                          FALSE, IF connectOk /\ listOk THEN 0 ELSE 1)
  /\ connected' = (IF connectOk THEN connected \cup {opened + 1} ELSE connected)
  /\ toolsList' = (IF connectOk /\ listOk THEN listing ELSE toolsList)
  /\ ipc' = InitializeGoesOn(gwResult'.status)
  /\ UNCHANGED <<closeCalled, calls, serverConfigs>>
  /\ UNCHANGED pVars
  /\ UNCHANGED lVars
  /\ UNCHANGED fVars
  /\ UNCHANGED uVars
  /\ UNCHANGED mVars
  /\ UNCHANGED xVars

\* initialize() returns: the for has gone through this.serverConfigs.
InitializeReturns ==
  /\ ipc = "running"
  /\ opened = Len(serverConfigs)
  /\ ipc' = "returned"
  /\ UNCHANGED serverConfigs
  /\ UNCHANGED gwVars
  /\ UNCHANGED pVars
  /\ UNCHANGED lVars
  /\ UNCHANGED fVars
  /\ UNCHANGED uVars
  /\ UNCHANGED mVars
  /\ UNCHANGED xVars

GatewayInit ==
  /\ clients = <<>>
  /\ tools = <<>>
  /\ opened = 0
  /\ closeCalled = {}
  /\ connected = {}
  /\ toolsList = <<>>
  /\ calls = <<>>
  /\ gwResult = GwResult("none", "", "", "ok", FALSE, 0)

GatewayNext ==
  \/ \E name \in ServerNames, connectOk \in BOOLEAN, listOk \in BOOLEAN,
        listing \in Listings :
       ConnectToServer(name, connectOk, listOk, listing)
  \/ \E toolName \in CalledNames, serverOk \in BOOLEAN : CallTool(toolName, serverOk)
  \/ \E failing \in SUBSET Values(clients) : Disconnect(failing)

----------------------------------------------------------------------------
(* Backend responses.                                                      *)

TextBlock(t) == [type |-> "text", text |-> t, name |-> "", id |-> ""]
ImageBlock == [type |-> "image", text |-> <<>>, name |-> "", id |-> ""]
ToolUseBlock(name, id) == [type |-> "tool_use", text |-> <<>>, name |-> name, id |-> id]

\* A backend call's outcome: it throws, or it resolves to content blocks with
\* a stop reason.  The local backend's message.content is the text of its
\* one text block.
Response(throws, stop, content) ==
  [throws |-> throws, stop_reason |-> stop, content |-> content]
NoResponse == Response(FALSE, "", <<>>)
BackendFailure == Response(TRUE, "", <<>>)
TextResponse(t) == Response(FALSE, "end_turn", <<TextBlock(t)>>)

\* A content block as the JSON value JSON.stringify(response.content) writes.
BlockValue(b) ==
  IF b.type = "text"
  THEN Obj(<<Member(<<"type">>, Str(<<"text">>)), Member(<<"text">>, Str(b.text))>>)
  ELSE IF b.type = "tool_use"
  THEN Obj(<<Member(<<"type">>, Str(<<"tool_use">>)), Member(<<"id">>, Str(<<b.id>>)),
             Member(<<"name">>, Str(<<b.name>>)), Member(<<"input">>, Obj(<<>>))>>)
  ELSE Obj(<<Member(<<"type">>, Str(<<b.type>>))>>)

ContentValue(content) == Arr([i \in 1..Len(content) |-> BlockValue(content[i])])

\* What a tool server returns as result.content.
ToolResultContent ==
  Arr(<<Obj(<<Member(<<"type">>, Str(<<"text">>)), Member(<<"text">>, Str(<<"a">>))>>)>>)

----------------------------------------------------------------------------
(* The providers (src/unnamed/part_006, src/ai/ollama-provider.ts,         *)
(* src/ai/anthropic-mcp-provider.ts).                                      *)

Message(role, content) == [role |-> role, content |-> content]

Outcome(kind, sg, error) ==
  [kind |-> kind, suggestion |-> sg, error |-> error]
Returned(sg) == Outcome("ok", sg, "")
Thrown(error) == Outcome("error", Undefined, error)
NoOutcome == Outcome("none", Undefined, "")

KeyCommand == <<"c">>
KeyExplanation == <<"e">>
KeyDangerous == <<"d">>
KeyUsedTools == <<"usedTools">>

\* const jsonMatch = text.match(/\{[\s\S]*\}/); if (!jsonMatch) throw ...;
\* const suggestion = JSON.parse(jsonMatch[0]);
ParseMatched(t) ==
  LET jsonMatch == MatchBraces(t)
  IN IF ~jsonMatch.found THEN Thrown("CouldNotParseJSON")
     ELSE LET parsed == JSONParse(jsonMatch.text)
          IN IF parsed.ok THEN Returned(parsed.val) ELSE Thrown("SyntaxError")

\* An extraction that never looks at the block's type.
ExtractAnthropicUntyped(resp) ==
  IF resp.content = <<>> THEN Thrown("TypeError")
  ELSE ParseMatched(resp.content[1].text)

\* A hosted provider that validates what it parsed, as the local one does.
ExtractAnthropicValidating(resp) ==
  IF resp.content = <<>> THEN Thrown("TypeError")
  ELSE IF resp.content[1].type # "text" THEN Thrown("UnexpectedResponseType")
  ELSE LET parsed == ParseMatched(resp.content[1].text)
       IN IF parsed.kind # "ok" THEN parsed
          ELSE IF \E key \in {KeyCommand, KeyExplanation, KeyDangerous} :
                    GetProp(parsed.suggestion, key) = Undefined
               THEN Thrown("InvalidResponseFormat")
          ELSE parsed

\* AnthropicProvider: response.content[0] must be a text block.
ExtractAnthropic(resp) ==
  IF resp.content = <<>> THEN Thrown("TypeError")
  ELSE IF resp.content[1].type # "text" THEN Thrown("UnexpectedResponseType")
  ELSE ParseMatched(resp.content[1].text)

\* A validation that checks the three members for absence only.
ValidateSuggestionPresence(sg) ==
  IF sg = JNull THEN Thrown("TypeError")
  ELSE IF \/ GetProp(sg, KeyCommand) = Undefined
          \/ GetProp(sg, KeyExplanation) = Undefined
          \/ GetProp(sg, KeyDangerous) = Undefined
       THEN Thrown("InvalidResponseFormat")
  ELSE Returned(sg)

\* if (!suggestion.command || !suggestion.explanation ||
\*     suggestion.dangerous === undefined) throw ...
\* Reading a property of null throws a TypeError first.
ValidateSuggestion(sg) ==
  IF sg = JNull THEN Thrown("TypeError")
  ELSE IF \/ Falsy(GetProp(sg, KeyCommand))
          \/ Falsy(GetProp(sg, KeyExplanation))
          \/ GetProp(sg, KeyDangerous) = Undefined
       THEN Thrown("InvalidResponseFormat")
  ELSE Returned(sg)

\* OllamaProvider: JSON.parse of the whole reply, else of the matched region;
\* then the validation.
ExtractOllama(resp) ==
  LET responseText == resp.content[1].text
      whole == JSONParse(responseText)
      parsed == IF whole.ok THEN Returned(whole.val) ELSE ParseMatched(responseText)
  IN IF parsed.kind = "ok" THEN ValidateSuggestion(parsed.suggestion) ELSE parsed

\* A search that takes the last block of the type.
LastOfType(content, type) ==
  LET at == {i \in 1..Len(content) : content[i].type = type}
  IN IF at = {} THEN [found |-> FALSE, block |-> ImageBlock]
     ELSE [found |-> TRUE, block |-> content[Max(at)]]

\* response.content.find((block) => block.type === type)
FirstOfType(content, type) ==
  LET at == {i \in 1..Len(content) : content[i].type = type}
  IN IF at = {} THEN [found |-> FALSE, block |-> ImageBlock]
     ELSE [found |-> TRUE, block |-> content[Min(at)]]

UsedToolsValue(used) == Arr([i \in 1..Len(used) |-> Str(<<used[i]>>)])

\* if (usedTools.length > 0) suggestion.usedTools = usedTools;
AttachUsedTools(sg, used) ==
  IF used # <<>>
  THEN Obj(PutMember(sg.m, KeyUsedTools, UsedToolsValue(used)))
  ELSE sg

\* AnthropicMCPProvider, after the tool loop: the first text block.
ExtractMCP(resp, used) ==
  LET textContent == FirstOfType(resp.content, "text")
  IN IF ~textContent.found THEN Thrown("NoTextResponse")
     ELSE LET parsed == ParseMatched(textContent.block.text)
          IN IF parsed.kind = "ok"
             THEN Returned(AttachUsedTools(parsed.suggestion, used))
             ELSE parsed

Extract(v, resp, used) ==
  IF v = "anthropic" THEN ExtractAnthropic(resp)
  ELSE IF v = "ollama" THEN ExtractOllama(resp)
  ELSE ExtractMCP(resp, used)

\* buildSystemPrompt(context) and the two fixed prompts: the context, the
\* tools paragraph when a manager with tools is attached, the format directive.
SystemPrompt(v, context, manager, tl) ==
  <<"sys">> \o context
  \o (IF v = "mcp" /\ manager /\ tl # <<>> THEN <<"mcptools">> ELSE <<>>)
  \o <<"format">>

\* buildAnthropicTools(): the names of the manager's tools, in map order.
AnthropicTools(v, manager, tl) ==
  IF v = "mcp" /\ manager THEN [i \in 1..Len(tl) |-> tl[i].k] ELSE <<>>

\* A request that carries the latest message only.
BackendRequestLatestOnly(v, context, history, manager, tl) ==
  IF v = "ollama"
  THEN [system |-> <<>>,
        messages |-> <<Message("system", SystemPrompt(v, context, manager, tl)),
                       history[Len(history)]>>,
        tools |-> <<>>]
  ELSE [system |-> SystemPrompt(v, context, manager, tl),
        messages |-> <<history[Len(history)]>>,
        tools |-> AnthropicTools(v, manager, tl)]

\* The request of a backend call: the hosted API takes the system prompt
\* apart from the messages, the local one as the first message.
BackendRequest(v, context, history, manager, tl) ==
  IF v = "ollama"
  THEN [system |-> <<>>,
        messages |-> <<Message("system", SystemPrompt(v, context, manager, tl))>> \o history,
        tools |-> <<>>]
  ELSE [system |-> SystemPrompt(v, context, manager, tl),
        messages |-> history,
        tools |-> AnthropicTools(v, manager, tl)]
NoRequest == [system |-> <<>>, messages |-> <<>>, tools |-> <<>>]

\* A push that starts the history over.
PushUserReplacing(history, request) == <<Message("user", request)>>

\* this.conversationHistory.push({role: 'user', content: userRequest})
PushUser(history, request) == Append(history, Message("user", request))

\* A getCommandSuggestion that forgets the assistant message.
PushAssistantForgotten(history, sg) == history

\* this.conversationHistory.push({role: 'assistant', content: JSON.stringify(suggestion)})
PushAssistant(history, sg) ==
  Append(history, Message("assistant", JSONStringify(sg)))

\* A tool round that keeps the tool result only.
PushToolResultOnly(history, resp, toolUseBlock) ==
  Append(history,
         Message("user", JSONStringify(Obj(<<
            Member(<<"type">>, Str(<<"tool_result">>)),
            Member(<<"tool_use_id">>, Str(<<toolUseBlock.id>>)),
            Member(<<"content">>, Str(JSONStringify(ToolResultContent)))>>))))

\* The two messages of a tool round.
PushToolRound(history, resp, toolUseBlock) ==
  history
  \o <<Message("assistant", JSONStringify(ContentValue(resp.content))),
       Message("user", JSONStringify(Obj(<<
          Member(<<"type">>, Str(<<"tool_result">>)),
          Member(<<"tool_use_id">>, Str(<<toolUseBlock.id>>)),
          Member(<<"content">>, Str(JSONStringify(ToolResultContent)))>>)))>>

\* getCommandSuggestion, up to its first await: the user message is pushed
\* and the backend is called with the whole history.
BeginSuggestion(request, context) ==
  /\ ppc = "idle"
  /\ nreq < MaxRequests
  /\ nreq' = nreq + 1
  /\ sinceClear' = sinceClear + 1
  /\ userRequest' = request
  /\ pOp' = "getCommandSuggestion"
  /\ conversationHistory' = PushUser(conversationHistory, request)
  /\ sent' = BackendRequest(variant, context, conversationHistory', mcpManager, tools)
  /\ usedTools' = <<>>
  /\ rounds' = 0
  /\ result' = NoOutcome
  /\ response' = NoResponse
  /\ ppc' = "awaiting"
  /\ UNCHANGED <<variant, mcpManager, returned>>
  /\ UNCHANGED gwVars

\* The call ends: it returns the suggestion, pushed to the history, or throws.
\* A getCommandSuggestion that takes its user message back when it fails.
FinishRollingBack(outcome) ==
  /\ result' = outcome
  /\ conversationHistory' =
       IF outcome.kind = "ok" THEN PushAssistant(conversationHistory, outcome.suggestion)
       ELSE SubSeq(conversationHistory, 1, Len(conversationHistory) - 1)
  /\ ppc' = "idle"

\* The end of getCommandSuggestion: the assistant message is pushed after the
\* suggestion was extracted; no catch touches the history.
Finish(outcome) ==
  /\ result' = outcome
  /\ conversationHistory' =
       IF outcome.kind = "ok" THEN PushAssistant(conversationHistory, outcome.suggestion)
       ELSE conversationHistory
  /\ ppc' = "idle"

\* The backend call rejects: getCommandSuggestion rejects with its error.
BackendThrows ==
  /\ ppc = "awaiting"
  /\ response' = BackendFailure
  /\ Finish(Thrown("BackendError"))
  /\ UNCHANGED <<variant, mcpManager, sent, usedTools, returned, pOp, nreq, rounds,
                 userRequest, sinceClear>>
  /\ UNCHANGED gwVars

\* A loop that goes on whether or not a manager is attached.
WantsToolWithoutManager(v, resp, manager) ==
  /\ v = "mcp"
  /\ resp.stop_reason = "tool_use"
  /\ FirstOfType(resp.content, "tool_use").found

\* A loop that gives up after its first round.
WantsToolOnce(v, resp, manager) ==
  /\ v = "mcp"
  /\ resp.stop_reason = "tool_use"
  /\ FirstOfType(resp.content, "tool_use").found
  /\ manager
  /\ rounds < 1

\* while (response.stop_reason === 'tool_use') with a tool_use block and a manager
WantsTool(v, resp, manager) ==
  /\ v = "mcp"
  /\ resp.stop_reason = "tool_use"
  /\ FirstOfType(resp.content, "tool_use").found
  /\ manager

\* The backend resolves and no tool round follows: the rest of
\* getCommandSuggestion runs to its end.
ReceiveFinal(resp) ==
  /\ ppc = "awaiting"
  /\ ~WantsTool(variant, resp, mcpManager)
  /\ response' = resp
  /\ Finish(Extract(variant, resp, usedTools))
  /\ UNCHANGED <<variant, mcpManager, sent, usedTools, returned, pOp, nreq, rounds,
                 userRequest, sinceClear>>
  /\ UNCHANGED gwVars

\* A provider that catches the tool's failure and answers all the same.
ToolCallCaught(status) == Returned(Obj(<<Member(KeyCommand, Str(<<"a">>)),
                                        Member(KeyExplanation, Str(<<status>>)),
                                        Member(KeyDangerous, JFalse)>>))

\* await this.mcpManager.callTool(toolName, toolInput) stands in no try: its
\* rejection is the rejection of getCommandSuggestion.
ToolCallThrown(status) == Thrown(status)

\* One tool round: the tool is called through the manager; when the call
\* throws, getCommandSuggestion rejects; otherwise two messages are pushed and
\* the backend is called again. The code has no limit of its own: maxRounds
\* and maxCalls only bound the exploration.
ToolRoundWithin(resp, serverOk, maxRounds, maxCalls) ==
  LET toolUseBlock == FirstOfType(resp.content, "tool_use").block
      status == CallToolStatus(tools, clients, toolUseBlock.name, serverOk)
  IN /\ ppc = "awaiting"
     /\ WantsTool(variant, resp, mcpManager)
     /\ rounds < maxRounds
     /\ CallForwarded(status) => Len(calls) < maxCalls
     /\ response' = resp
     /\ usedTools' = Append(usedTools, toolUseBlock.name)
     /\ calls' = CallsAfter(calls, tools, clients, toolUseBlock.name, status)
     /\ gwResult' = CallToolResult(tools, toolUseBlock.name, status)
     /\ rounds' = rounds + 1
     /\ IF status = "ok"
        THEN /\ conversationHistory' = PushToolRound(conversationHistory, resp, toolUseBlock)
             /\ sent' = [sent EXCEPT !.messages = conversationHistory']
             /\ UNCHANGED <<result, ppc>>
        ELSE /\ result' = ToolCallThrown(status)
             /\ ppc' = "idle"
             /\ UNCHANGED <<conversationHistory, sent>>
     /\ UNCHANGED <<variant, mcpManager, returned, pOp, nreq, userRequest, sinceClear>>
     /\ UNCHANGED <<clients, tools, opened, closeCalled, connected, toolsList>>

ToolRound(resp, serverOk) == ToolRoundWithin(resp, serverOk, MaxToolRounds, MaxCalls)

\* clearHistory()
ClearHistory ==
  /\ ppc = "idle"
  /\ conversationHistory' = <<>>
  /\ pOp' = "clearHistory"
  /\ sinceClear' = 0
  /\ UNCHANGED <<variant, mcpManager, ppc, sent, response, usedTools, result, returned,
                 nreq, rounds, userRequest>>
  /\ UNCHANGED gwVars

\* getHistory(): [...this.conversationHistory]
HistoryCopy(history) == history

\* A getHistory that returns this.conversationHistory itself.
GetHistoryAliasesInternal == TRUE

\* Whether the array getHistory returns is the provider's own array: it is a
\* fresh one, [...this.conversationHistory].
GetHistoryAliases == FALSE

GetHistory ==
  /\ ppc = "idle"
  /\ returned' = HistoryCopy(conversationHistory)
  /\ pOp' = "getHistory"
  /\ UNCHANGED <<variant, mcpManager, conversationHistory, ppc, sent, response,
                 usedTools, result, nreq, rounds, userRequest, sinceClear>>
  /\ UNCHANGED gwVars

\* What a caller may do to the array it got: push, pop, reverse.
Mutations(sq) ==
  {Append(sq, Message("user", <<"test">>)), Reverse(sq)}
  \cup (IF sq = <<>> THEN {} ELSE {SubSeq(sq, 1, Len(sq) - 1)})

\* The caller of getHistory changes the array it was given.
MutateReturned(changed) ==
  /\ ppc = "idle"
  /\ pOp = "getHistory"
  /\ changed \in Mutations(returned)
  /\ returned' = changed
  /\ pOp' = "mutate"
  /\ conversationHistory' = IF GetHistoryAliases THEN changed ELSE conversationHistory
  /\ UNCHANGED <<variant, mcpManager, ppc, sent, response, usedTools, result, nreq, rounds,
                 userRequest, sinceClear>>
  /\ UNCHANGED gwVars

----------------------------------------------------------------------------
(* Inputs of the providers.                                                *)

Variants == {"anthropic", "ollama", "mcp"}
UserRequests == {<<"list">>, <<"more">>}
Contexts == {<<"ctx">>}

RECURSIVE SeqsUpTo(_, _)
\* The sequences over S of length at most n.
SeqsUpTo(S, n) ==
  IF n = 0 THEN {<<>>}
  ELSE LET shorter == SeqsUpTo(S, n - 1)
       IN shorter \cup {Append(sq, x) : sq \in shorter, x \in S}

Suggestion(command, explanation, dangerous) ==
  Obj(<<Member(KeyCommand, Str(command)), Member(KeyExplanation, Str(explanation)),
        Member(KeyDangerous, dangerous)>>)

\* Commands: a plain one, and one with braces in it such as awk '{print}'.
Commands == {<<"a">>, <<"{", "a", "}">>}
ValidSuggestions == {Suggestion(cmd, <<"a">>, dg) : cmd \in Commands, dg \in {JTrue, JFalse}}

\* Objects that are not complete suggestions.
PartialObjects ==
  { Obj(<<Member(KeyCommand, Str(<<"a">>))>>),
    Obj(<<Member(KeyCommand, Str(<<"a">>)), Member(KeyDangerous, JFalse)>>),
    Obj(<<Member(KeyCommand, Str(<<"a">>)), Member(KeyExplanation, Str(<<"a">>))>>),
    Obj(<<Member(KeyExplanation, Str(<<"a">>)), Member(KeyDangerous, JTrue)>>),
    Suggestion(<<>>, <<"a">>, JFalse),
    Suggestion(<<"a">>, <<>>, JFalse),
    Suggestion(<<"a">>, <<"a">>, JNull),
    Obj(<<Member(KeyCommand, JNull), Member(KeyExplanation, Str(<<"a">>)),
          Member(KeyDangerous, JFalse)>>),
    Obj(<<Member(KeyCommand, Str(<<"a">>)), Member(KeyExplanation, JFalse),
          Member(KeyDangerous, JTrue)>>),
    Obj(<<>>) }

\* A suggestion written with a usedTools member of its own, the way the
\* assistant messages of earlier tool-using turns read in the history.
SuggestionWithUsedTools ==
  Obj(<<Member(KeyCommand, Str(<<"a">>)), Member(KeyExplanation, Str(<<"a">>)),
        Member(KeyDangerous, JFalse), Member(KeyUsedTools, UsedToolsValue(<<"g">>))>>)

\* The regions a reply is built around: serialized objects, one written with
\* spaces, the word null, a braced region that is no JSON, and nothing.
Cores ==
  {JSONStringify(v) : v \in ValidSuggestions \cup PartialObjects \cup {SuggestionWithUsedTools}}
  \cup { <<"{", "w", "q", "c", "q", ":", "w", "q", "a", "q", ",", "q", "e", "q", ":",
           "q", "a", "q", ",", "w", "q", "d", "q", ":", "T", "w", "}">>,
         <<"N">>, <<"{", "a", "}">>, <<>> }

PadChars == {"a", "w", "{", "}", "k"}
Pads == SeqsUpTo(PadChars, MaxPad)
ReplyTexts == {pre \o core \o post : pre \in Pads, core \in Cores, post \in Pads}

\* The replies of the runs with several requests: a bare suggestion, a fenced
\* dangerous one, and text without JSON.
FewTexts ==
  { JSONStringify(Suggestion(<<"a">>, <<"a">>, JFalse)),
    <<"k", "w">> \o JSONStringify(Suggestion(<<"a">>, <<"a">>, JTrue)) \o <<"w", "k">>,
    <<"a">> }

\* Replies that ask for tools: one tool_use block (of a declared or an
\* unknown tool), text before it, two tool_use blocks, and the stop reason
\* with no tool_use block at all.
ToolUseResponses ==
  {Response(FALSE, "tool_use", <<ToolUseBlock(n, "id1")>>) : n \in CalledNames}
  \cup { Response(FALSE, "tool_use",
                  <<TextBlock(JSONStringify(Suggestion(<<"a">>, <<"a">>, JFalse))),
                    ToolUseBlock("r", "id1")>>),
         Response(FALSE, "tool_use", <<ToolUseBlock("r", "id1"), ToolUseBlock("g", "id2")>>),
         Response(FALSE, "tool_use", <<TextBlock(<<"a">>)>>) }

\* The tool requests of the runs with several requests: a declared tool and
\* an unknown one.
FewToolUseResponses ==
  {Response(FALSE, "tool_use", <<ToolUseBlock(n, "id1")>>) : n \in {"r", "u"}}

\* What the backend of a variant may answer, given the reply texts.
ResponsesFor(v, texts) ==
  {TextResponse(t) : t \in texts}
  \cup (IF v = "ollama" THEN {}
        ELSE {Response(FALSE, "end_turn", <<ImageBlock>>)})
  \cup (IF v # "mcp" THEN {}
        ELSE ToolUseResponses
             \cup {Response(FALSE, "end_turn", <<ImageBlock, TextBlock(t)>>) : t \in FewTexts})

----------------------------------------------------------------------------
(* CommandExecutor (src/terminal/executor.ts) and getSystemContext         *)
(* (src/utils/context.ts).                                                 *)

RECURSIVE TrimStart(_)
TrimStart(t) == IF t # <<>> /\ Head(t) = "w" THEN TrimStart(Tail(t)) ELSE t

\* String.prototype.trim()
Trim(t) == Reverse(TrimStart(Reverse(TrimStart(t))))

\* How the shell invocation ends: it resolves with stdout and stderr, or
\* rejects with an error that may carry stdout, stderr and a code (absent
\* ones are Undefined). The code is the exit status, a number written as a
\* literal, or the name of the error that kept the command from running to
\* its end, a string.
ShellOutcome(ok, stdout, stderr, message, code) ==
  [ok |-> ok, stdout |-> stdout, stderr |-> stderr, message |-> message, code |-> code]

\* No shell invocation has ended yet.
NoShellOutcome == ShellOutcome(TRUE, Undefined, Undefined, <<>>, Undefined)

ExecutionResult(stdout, stderr, exitCode) ==
  [stdout |-> stdout, stderr |-> stderr, exitCode |-> exitCode]
NoExecution == ExecutionResult(<<>>, <<>>, Undefined)

\* x?.trim() || fallback
TrimOr(x, fallback) ==
  IF x.type = "undefined" \/ Trim(x.s) = <<>> THEN fallback ELSE Trim(x.s)

\* An execute whose catch defaults the code only when it is absent or null
\* (error.code ?? 1).
ExecuteNullish(outcome) ==
  IF outcome.ok
  THEN ExecutionResult(Trim(outcome.stdout.s), Trim(outcome.stderr.s), Lit("0"))
  ELSE ExecutionResult(TrimOr(outcome.stdout, <<>>),
                       TrimOr(outcome.stderr, outcome.message),
                       IF outcome.code \in {Undefined, JNull} THEN Lit("1") ELSE outcome.code)

\* execute(command): the try branch on success, the catch branch on failure.
Execute(outcome) ==
  IF outcome.ok
  THEN ExecutionResult(Trim(outcome.stdout.s), Trim(outcome.stderr.s), Lit("0"))
  ELSE ExecutionResult(TrimOr(outcome.stdout, <<>>),
                       TrimOr(outcome.stderr, outcome.message),
                       OrElse(outcome.code, Lit("1")))

\* The directory the shell would run in were no cwd option given.
ProcessCwd == "/proc/cwd"

\* An invocation that leaves the cwd option out.
CwdOptionOfProcess(dir) == ProcessCwd

\* cwd: this.workingDirectory
CwdOption(dir) == dir

\* How a call of execute ends: it returns a result or raises.
Completion(raised, value) == [raised |-> raised, value |-> value]

\* An execute whose try has no catch: a rejection of the shell invocation
\* leaves the call.
ExecuteCompletionWithoutCatch(outcome) ==
  IF outcome.ok THEN Completion(FALSE, Execute(outcome)) ELSE Completion(TRUE, NoExecution)

\* execute(command): both branches end in a return.
ExecuteCompletion(outcome) == Completion(FALSE, Execute(outcome))

ShellOutcomes ==
  { ShellOutcome(TRUE, Str(<<"ok", "w">>), Str(<<>>), <<>>, Undefined),
    ShellOutcome(FALSE, Str(<<>>), Str(<<"w", "notfound">>), <<"failed">>, Lit("127")),
    ShellOutcome(FALSE, Undefined, Undefined, <<"boom">>, Undefined) }

\* Texts a command may write: nothing, white space only, padded words.
OutputTexts == {<<>>, <<"w">>, <<"w", "ok", "w", "w">>}
\* The codes a rejection carries: none, null (killed by a signal), zero, an
\* exit status, the name of a spawn failure, the name of the error raised when
\* the output goes over maxBuffer.
ErrorCodes ==
  {Undefined, JNull, Lit("0"), Lit("127"), Str(<<"ENOENT">>),
   Str(<<"ERR_CHILD_PROCESS_STDIO_MAXBUFFER">>)}
\* Every way the shell invocation may end.
AllShellOutcomes ==
  {ShellOutcome(TRUE, Str(out), Str(err), <<>>, Undefined) :
     out \in OutputTexts, err \in OutputTexts}
  \cup {ShellOutcome(FALSE, out, err, <<"boom">>, code) :
          out \in {Undefined} \cup {Str(t) : t \in OutputTexts},
          err \in {Undefined} \cup {Str(t) : t \in OutputTexts},
          code \in ErrorCodes}

\* The commands handed to execute.
ShellCommands == {Str(<<"ls">>), Str(<<"cd", "w", "/custom/dir">>)}
\* The directories an executor is constructed with or set to.
Directories == {"/test/dir", "/custom/dir"}

WorkingDirectories == {"/test/dir"}
\* readdir(workingDir): the entries, or a failure.
\* No call made, nothing completed.
NoCall == [op |-> "none"]
\* A line break in a text.
LineBreak == "nl"
\* The entry names of a directory, as texts; a name may hold a line break.
EntryNames == {<<"a.txt">>, <<"b">>, <<"file", "w", "x">>, <<"a", LineBreak, "b">>}
MaxEntries == 2
DirListings ==
  {[ok |-> TRUE, files |-> f] : f \in SeqsUpTo(EntryNames, MaxEntries)}
    \cup {[ok |-> FALSE, files |-> <<>>]}
\* readdir(workingDir) in the runs of the whole loop: the directory is read.
LoopListings == {[ok |-> TRUE, files |-> <<<<"a.txt">>, <<"b">>>>]}
\* The directories a snapshot is taken of.
SnapshotDirectories == {"/test/dir", "/empty/dir", "/forbidden/dir"}

RECURSIVE Join(_)
\* files.join(', ')
Join(files) ==
  IF files = <<>> THEN <<>>
  ELSE IF Len(files) = 1 THEN Head(files)
  ELSE Head(files) \o <<",", "w">> \o Join(Tail(files))

\* try { files = await readdir(workingDir) } with the catch removed.
ReadEntriesWithoutCatch(listing) == [raised |-> ~listing.ok, files |-> listing.files]

\* let files = []; try { files = await readdir(workingDir) } catch { }
ReadEntries(listing) ==
  [raised |-> FALSE, files |-> IF listing.ok THEN listing.files ELSE <<>>]

\* The returned template: five lines, line breaks between them.
SystemContext(workingDir, listing) ==
  LET files == ReadEntries(listing).files
  IN <<"cwd:", workingDir, LineBreak, "user:", "u", LineBreak, "os:", "linux", LineBreak,
       "home:", "/home/u", LineBreak, "files:">>
     \o (IF Len(files) > 0 THEN Join(files) ELSE <<"empty">>)

\* await getSystemContext(workingDir)
GetSystemContext ==
  /\ snapshot = NoCall
  /\ snapshot' = [op |-> "getSystemContext",
                  raised |-> ReadEntries(snapshotOf.listing).raised,
                  text |-> IF ReadEntries(snapshotOf.listing).raised THEN <<>>
                           ELSE SystemContext(snapshotOf.workingDir, snapshotOf.listing)]
  /\ UNCHANGED <<snapshotOf, configFiles, mcpEnv, mcpResult>>
  /\ UNCHANGED gwVars
  /\ UNCHANGED pVars
  /\ UNCHANGED lVars
  /\ UNCHANGED fVars
  /\ UNCHANGED iVars
  /\ UNCHANGED xVars
  /\ UNCHANGED mVars

----------------------------------------------------------------------------
(* TerminalPrompt (src/unnamed/part_007).                                  *)

\* What prompts() may resolve response.input to: nothing (the prompt was
\* cancelled) or the line typed.
Lines ==
  { Undefined, Str(<<>>), Str(<<"w">>), Str(<<"exit">>), Str(<<"w", "quit">>),
    Str(<<"clear">>), Str(<<"w", "list", "w">>) }

\* What prompts() may resolve confirm.execute to.
Answers == {JTrue, JFalse, Undefined}

Printed(kind, value) == [kind |-> kind, value |-> value]

\* A loop that goes on whatever isRunning is.
LoopCheckNeverReturns(running) == "prompt"

\* while (this.isRunning): after promptLoop returns, prompt again or return.
LoopCheck(running) == IF running THEN "prompt" ELSE "returned"

\* `${x}` for a property of the suggestion.
Shown(v) == IF v.type = "str" THEN v.s ELSE <<v.type>> \o v.s

\* The lines handleUserRequest prints for a suggestion.
SuggestionLines(sg) ==
  <<Printed("suggests", <<>>),
    Printed("command", Shown(GetProp(sg, KeyCommand))),
    Printed("explanation", Shown(GetProp(sg, KeyExplanation)))>>
  \o (IF ~Falsy(GetProp(sg, KeyDangerous)) THEN <<Printed("warning", <<>>)>> ELSE <<>>)

\* A confirmation that always proposes yes.
ConfirmInitialYes(sg) == TRUE

\* initial: !suggestion.dangerous
ConfirmInitial(sg) == Falsy(GetProp(sg, KeyDangerous))

\* The confirmation prompt, with the answer it proposes.
ConfirmPrompt(sg) == Printed("confirm", <<IF ConfirmInitial(sg) THEN "yes" ELSE "no">>)

DeclinesNever(ans) == FALSE

\* if (!confirm.execute)
Declines(ans) == Falsy(ans)

\* The lines printed for an ExecutionResult.
ResultLines(r) ==
  IF r.exitCode = Lit("0")
  THEN <<Printed("success", <<>>)>>
       \o (IF r.stdout # <<>> THEN <<Printed("output", r.stdout)>> ELSE <<>>)
  ELSE <<Printed("error", <<>>)>>
       \o (IF r.stderr # <<>> THEN <<Printed("erroroutput", r.stderr)>> ELSE <<>>)

\* An iteration that lets the error out: start() rejects.
CatchErrorRethrows(error, running) == [printed |-> <<>>, lpc |-> "crashed"]

\* catch (error): the error is printed and handleUserRequest returns.
CatchError(error, running) ==
  [printed |-> <<Printed("caught", <<error>>)>>, lpc |-> LoopCheck(running)]

\* start(), up to the first prompt.
Start ==
  /\ lpc = "new"
  /\ isRunning' = TRUE
  /\ lpc' = "prompt"
  /\ display' = <<Printed("banner", <<>>)>>
  /\ UNCHANGED <<suggestion, answer, executed, execResult, workingDirectory, lineRead,
                 cycleError>>
  /\ UNCHANGED xVars
  /\ UNCHANGED pVars
  /\ UNCHANGED gwVars
  /\ UNCHANGED fVars
  /\ UNCHANGED iVars
  /\ UNCHANGED uVars
  /\ UNCHANGED mVars

\* promptLoop() on a line that is no request: nothing typed, exit or quit,
\* clear, or only spaces.
ReadControl(ln) ==
  LET trimmed == IF ln.type = "str" THEN Trim(ln.s) ELSE <<>>
      quits == ~Falsy(ln) /\ trimmed \in {<<"exit">>, <<"quit">>}
      clears == ~Falsy(ln) /\ trimmed = <<"clear">>
  IN /\ lpc = "prompt"
     /\ Falsy(ln) \/ quits \/ clears \/ trimmed = <<>>
     /\ isRunning' = (IF quits THEN FALSE ELSE isRunning)
     /\ display' = (IF quits THEN <<Printed("goodbye", <<>>)>>
                    ELSE IF clears THEN <<Printed("cleared", <<>>)>> ELSE <<>>)
     /\ lpc' = LoopCheck(isRunning')
     /\ IF clears THEN ClearHistory ELSE UNCHANGED pVars /\ UNCHANGED gwVars
     /\ lineRead' = ln
     /\ cycleError' = ""
     /\ UNCHANGED <<suggestion, answer, executed, execResult, workingDirectory>>
     /\ UNCHANGED xVars
     /\ UNCHANGED fVars
     /\ UNCHANGED iVars
     /\ UNCHANGED uVars
     /\ UNCHANGED mVars

\* promptLoop() on a request: handleUserRequest up to the backend call.
ReadRequest(ln, listing) ==
  /\ lpc = "prompt"
  /\ ~Falsy(ln)
  /\ Trim(ln.s) \notin {<<>>, <<"exit">>, <<"quit">>, <<"clear">>}
  /\ xOp' = "get"
  /\ gotDir' = workingDirectory
  /\ BeginSuggestion(Trim(ln.s), SystemContext(gotDir', listing))
  /\ lpc' = "thinking"
  /\ display' = <<>>
  /\ suggestion' = Undefined
  /\ answer' = Undefined
  /\ lineRead' = ln
  /\ cycleError' = ""
  /\ UNCHANGED <<isRunning, executed, execResult, workingDirectory>>
  /\ UNCHANGED <<lastDirGiven, execCwd, execRaised, execOutcome>>
  /\ UNCHANGED fVars
  /\ UNCHANGED iVars
  /\ UNCHANGED uVars
  /\ UNCHANGED mVars

\* promptLoop() on a request whose context snapshot fails: userInfo() throws,
\* the error is caught and the provider is never called.
ContextFails(ln) ==
  /\ lpc = "prompt"
  /\ ~Falsy(ln)
  /\ Trim(ln.s) \notin {<<>>, <<"exit">>, <<"quit">>, <<"clear">>}
  /\ xOp' = "get"
  /\ gotDir' = workingDirectory
  /\ cycleError' = "userInfo"
  /\ display' = CatchError("userInfo", isRunning).printed
  /\ lpc' = CatchError("userInfo", isRunning).lpc
  /\ suggestion' = Undefined
  /\ answer' = Undefined
  /\ lineRead' = ln
  /\ UNCHANGED <<isRunning, executed, execResult, workingDirectory>>
  /\ UNCHANGED <<lastDirGiven, execCwd, execRaised, execOutcome>>
  /\ UNCHANGED pVars
  /\ UNCHANGED gwVars
  /\ UNCHANGED fVars
  /\ UNCHANGED iVars
  /\ UNCHANGED uVars
  /\ UNCHANGED mVars

\* handleUserRequest after a step of getCommandSuggestion: still waiting, or
\* the suggestion is shown and the confirmation asked, or the error is caught
\* and printed.
AfterProvider ==
  /\ lpc = "thinking"
  /\ IF ppc' = "awaiting"
     THEN UNCHANGED <<lpc, suggestion, display, cycleError>>
     ELSE IF result'.kind = "ok"
     THEN /\ suggestion' = result'.suggestion
          /\ display' = Append(SuggestionLines(result'.suggestion),
                                ConfirmPrompt(result'.suggestion))
          /\ lpc' = "confirm"
          /\ UNCHANGED cycleError
     ELSE /\ cycleError' = result'.error
          /\ display' = CatchError(result'.error, isRunning).printed
          /\ lpc' = CatchError(result'.error, isRunning).lpc
          /\ UNCHANGED suggestion
  /\ UNCHANGED <<isRunning, answer, executed, execResult, workingDirectory, lineRead>>
  /\ UNCHANGED xVars
  /\ UNCHANGED fVars
  /\ UNCHANGED iVars
  /\ UNCHANGED uVars
  /\ UNCHANGED mVars

\* An answer that declines (or a cancelled confirmation): the command is skipped.
Decline(ans) ==
  /\ lpc = "confirm"
  /\ Declines(ans)
  /\ answer' = ans
  /\ display' = Append(display, Printed("skipped", <<>>))
  /\ lpc' = LoopCheck(isRunning)
  /\ UNCHANGED <<isRunning, suggestion, executed, execResult, workingDirectory, lineRead,
                 cycleError>>
  /\ UNCHANGED xVars
  /\ UNCHANGED pVars
  /\ UNCHANGED gwVars
  /\ UNCHANGED fVars
  /\ UNCHANGED iVars
  /\ UNCHANGED uVars
  /\ UNCHANGED mVars

\* The confirmation prompt rejects: the error is caught, nothing is executed.
ConfirmFails ==
  /\ lpc = "confirm"
  /\ cycleError' = "prompts"
  /\ display' = display \o CatchError("prompts", isRunning).printed
  /\ lpc' = CatchError("prompts", isRunning).lpc
  /\ UNCHANGED <<isRunning, suggestion, answer, executed, execResult, workingDirectory,
                 lineRead>>
  /\ UNCHANGED xVars
  /\ UNCHANGED pVars
  /\ UNCHANGED gwVars
  /\ UNCHANGED fVars
  /\ UNCHANGED iVars
  /\ UNCHANGED uVars
  /\ UNCHANGED mVars

\* execute called and not awaited: the loop goes on while the command runs.
ConfirmWithoutAwait(ans) ==
  /\ lpc = "confirm"
  /\ ~Declines(ans)
  /\ answer' = ans
  /\ executed' = Append(executed, GetProp(suggestion, KeyCommand))
  /\ lpc' = LoopCheck(isRunning)
  /\ xOp' = "execute"
  /\ execCwd' = CwdOption(workingDirectory)
  /\ UNCHANGED <<isRunning, suggestion, display, execResult, workingDirectory, lineRead,
                 cycleError>>
  /\ UNCHANGED <<lastDirGiven, gotDir, execRaised, execOutcome>>
  /\ UNCHANGED pVars
  /\ UNCHANGED gwVars
  /\ UNCHANGED fVars
  /\ UNCHANGED iVars
  /\ UNCHANGED uVars
  /\ UNCHANGED mVars

\* An answer that confirms: executor.execute(suggestion.command) is called.
Confirm(ans) ==
  /\ lpc = "confirm"
  /\ ~Declines(ans)
  /\ answer' = ans
  /\ executed' = Append(executed, GetProp(suggestion, KeyCommand))
  /\ lpc' = "executing"
  /\ xOp' = "execute"
  /\ execCwd' = CwdOption(workingDirectory)
  /\ UNCHANGED <<isRunning, suggestion, display, execResult, workingDirectory, lineRead,
                 cycleError>>
  /\ UNCHANGED <<lastDirGiven, gotDir, execRaised, execOutcome>>
  /\ UNCHANGED pVars
  /\ UNCHANGED gwVars
  /\ UNCHANGED fVars
  /\ UNCHANGED iVars
  /\ UNCHANGED uVars
  /\ UNCHANGED mVars

\* execute resolves: the result is printed.
Executed(outcome) ==
  /\ lpc = "executing"
  /\ execResult' = ExecuteCompletion(outcome).value
  /\ execRaised' = ExecuteCompletion(outcome).raised
  /\ execOutcome' = outcome
  /\ display' = display \o ResultLines(execResult')
  /\ lpc' = LoopCheck(isRunning)
  /\ UNCHANGED <<isRunning, suggestion, answer, executed, workingDirectory, lineRead,
                 cycleError>>
  /\ UNCHANGED <<xOp, lastDirGiven, gotDir, execCwd>>
  /\ UNCHANGED pVars
  /\ UNCHANGED gwVars
  /\ UNCHANGED fVars
  /\ UNCHANGED iVars
  /\ UNCHANGED uVars
  /\ UNCHANGED mVars

\* A stop() that abandons the iteration in progress.
StopAbandons ==
  /\ isRunning
  /\ isRunning' = FALSE
  /\ lpc' = "returned"
  /\ UNCHANGED <<suggestion, answer, display, executed, execResult,
                 workingDirectory, lineRead, cycleError>>
  /\ UNCHANGED xVars
  /\ UNCHANGED pVars
  /\ UNCHANGED gwVars
  /\ UNCHANGED fVars
  /\ UNCHANGED iVars
  /\ UNCHANGED uVars
  /\ UNCHANGED mVars

\* stop()
Stop ==
  /\ isRunning
  /\ isRunning' = FALSE
  /\ UNCHANGED <<lpc, suggestion, answer, display, executed, execResult,
                 workingDirectory, lineRead, cycleError>>
  /\ UNCHANGED xVars
  /\ UNCHANGED pVars
  /\ UNCHANGED gwVars
  /\ UNCHANGED fVars
  /\ UNCHANGED iVars
  /\ UNCHANGED uVars
  /\ UNCHANGED mVars

\* new CommandExecutor(dir), dir one of dirs
ExecutorInit(dirs) ==
  /\ workingDirectory \in dirs
  /\ xOp = "new"
  /\ lastDirGiven = workingDirectory
  /\ gotDir = ""
  /\ execCwd = ""
  /\ execRaised = FALSE
  /\ execOutcome = NoShellOutcome
  /\ executed = <<>>
  /\ execResult = NoExecution

\* new TerminalPrompt(aiClient)
PromptInit ==
  /\ isRunning = FALSE
  /\ lpc = "new"
  /\ suggestion = Undefined
  /\ answer = Undefined
  /\ display = <<>>
  /\ lineRead = Undefined
  /\ cycleError = ""

LoopInit == PromptInit /\ ExecutorInit(WorkingDirectories)

----------------------------------------------------------------------------
(* createAIProvider and getConfigFromEnv (src/ai/factory.ts).              *)

AIConfig(provider, anthropicApiKey, ollamaHost, ollamaModel, enableMCP) ==
  [provider |-> provider, anthropicApiKey |-> anthropicApiKey,
   ollamaHost |-> ollamaHost, ollamaModel |-> ollamaModel, enableMCP |-> enableMCP]
NoConfig == AIConfig(Undefined, Undefined, Undefined, Undefined, Undefined)

Env(aiProvider, enableMcp, apiKey, host, model) ==
  [AI_PROVIDER |-> aiProvider, ENABLE_MCP |-> enableMcp, ANTHROPIC_API_KEY |-> apiKey,
   OLLAMA_HOST |-> host, OLLAMA_MODEL |-> model]
EmptyEnv == Env(Undefined, Undefined, Undefined, Undefined, Undefined)

DefaultHost == Str(<<"http://localhost:11434">>)
DefaultModel == Str(<<"qwen2.5-coder:7b">>)

\* getConfigFromEnv()
ConfigFromEnv(e) ==
  AIConfig(OrElse(e.AI_PROVIDER, Str(<<"anthropic">>)),
           e.ANTHROPIC_API_KEY, e.OLLAMA_HOST, e.OLLAMA_MODEL,
           IF e.ENABLE_MCP = Str(<<"true">>) THEN JTrue ELSE JFalse)

\* What createAIProvider comes to: a provider of a class ("anthropic",
\* "mcp", "ollama") with its constructor arguments, or an error.
Created(kind, class, apiKey, host, model, error) ==
  [kind |-> kind, class |-> class, apiKey |-> apiKey, host |-> host, model |-> model,
   error |-> error]
NotCreated == Created("none", "", Undefined, Undefined, Undefined, "")
ConfigurationError(error) == Created("error", "", Undefined, Undefined, Undefined, error)
NewProvider(class, apiKey, host, model) == Created("provider", class, apiKey, host, model, "")

\* A factory that takes every tag but the hosted one for the local provider.
CreateAIProviderDefaultingToLocal(cfg) ==
  IF cfg.provider = Str(<<"anthropic">>)
  THEN IF Falsy(cfg.anthropicApiKey) THEN ConfigurationError("ApiKeyRequired")
       ELSE IF ~Falsy(cfg.enableMCP)
       THEN NewProvider("mcp", cfg.anthropicApiKey, Undefined, Undefined)
       ELSE NewProvider("anthropic", cfg.anthropicApiKey, Undefined, Undefined)
  ELSE NewProvider("ollama", Undefined, OrElse(cfg.ollamaHost, DefaultHost),
                   OrElse(cfg.ollamaModel, DefaultModel))

\* A factory that never looks at enableMCP.
CreateAIProviderWithoutTools(cfg) ==
  IF cfg.provider = Str(<<"anthropic">>)
  THEN IF Falsy(cfg.anthropicApiKey) THEN ConfigurationError("ApiKeyRequired")
       ELSE NewProvider("anthropic", cfg.anthropicApiKey, Undefined, Undefined)
  ELSE IF cfg.provider = Str(<<"ollama">>)
  THEN NewProvider("ollama", Undefined, OrElse(cfg.ollamaHost, DefaultHost),
                   OrElse(cfg.ollamaModel, DefaultModel))
  ELSE ConfigurationError("UnsupportedProvider")

\* createAIProvider(config)
CreateAIProvider(cfg) ==
  IF cfg.provider = Str(<<"anthropic">>)
  THEN IF Falsy(cfg.anthropicApiKey) THEN ConfigurationError("ApiKeyRequired")
       ELSE IF ~Falsy(cfg.enableMCP)
       THEN NewProvider("mcp", cfg.anthropicApiKey, Undefined, Undefined)
       ELSE NewProvider("anthropic", cfg.anthropicApiKey, Undefined, Undefined)
  ELSE IF cfg.provider = Str(<<"ollama">>)
  THEN NewProvider("ollama", Undefined, OrElse(cfg.ollamaHost, DefaultHost),
                   OrElse(cfg.ollamaModel, DefaultModel))
  ELSE ConfigurationError("UnsupportedProvider")

\* Values of the environment variables: unset, empty, or a text.
ProviderTags == {Str(<<"anthropic">>), Str(<<"ollama">>), Str(<<"openai">>)}
ApiKeys == {Undefined, Str(<<>>), Str(<<"sk">>)}
Hosts == {Undefined, Str(<<>>), Str(<<"http://h">>)}
Models == {Undefined, Str(<<>>), Str(<<"m">>)}
Envs ==
  {Env(tag, mcp, key, host, model) :
     tag \in ProviderTags \cup {Undefined, Str(<<>>)},
     mcp \in {Undefined, Str(<<"true">>), Str(<<"TRUE">>), Str(<<"false">>)},
     key \in ApiKeys, host \in {Undefined, Str(<<"http://h">>)},
     model \in {Undefined, Str(<<"m">>)}}
\* Configurations a caller builds itself.
Configs ==
  {AIConfig(tag, key, host, model, mcp) :
     tag \in ProviderTags, key \in ApiKeys, host \in Hosts, model \in Models,
     mcp \in {Undefined, JTrue, JFalse}}

\* const config = getConfigFromEnv()
GetConfigFromEnv ==
  /\ config = NoConfig
  /\ env # EmptyEnv
  /\ config' = ConfigFromEnv(env)
  /\ UNCHANGED <<env, created>>
  /\ UNCHANGED iVars
  /\ UNCHANGED uVars
  /\ UNCHANGED mVars
  /\ UNCHANGED xVars
  /\ UNCHANGED gwVars
  /\ UNCHANGED pVars
  /\ UNCHANGED lVars

\* createAIProvider(config)
CreateProvider ==
  /\ config # NoConfig
  /\ created = NotCreated
  /\ created' = CreateAIProvider(config)
  /\ UNCHANGED <<env, config>>
  /\ UNCHANGED iVars
  /\ UNCHANGED uVars
  /\ UNCHANGED mVars
  /\ UNCHANGED xVars
  /\ UNCHANGED gwVars
  /\ UNCHANGED pVars
  /\ UNCHANGED lVars

\* Before start-up.
FactoryIdle == env = EmptyEnv /\ config = NoConfig /\ created = NotCreated

\* The component is used in a live process, main() being out of the picture.
MainIdle == mpc = "running" /\ processExit = -1 /\ mainOut = ""

\* The parts of the program a run does not use.
UtilIdle ==
  /\ snapshotOf = NoCall /\ snapshot = NoCall
  /\ configFiles = <<>> /\ mcpEnv = NoCall /\ mcpResult = NoCall
InitializeIdle == serverConfigs = <<>> /\ ipc = "idle"
RestIdle == MainIdle /\ UtilIdle /\ InitializeIdle

\* An environment to read the configuration from, or a configuration given
\* by the caller.
FactoryInit ==
  /\ \/ env \in Envs \ {EmptyEnv} /\ config = NoConfig
     \/ env = EmptyEnv /\ config \in Configs
  /\ created = NotCreated

----------------------------------------------------------------------------
(* CommandExecutor used on its own (src/terminal/executor.ts).             *)

\* execute(command), from the call to the return; outcome is how the shell
\* invocation ends.
ExecuteCommand(command, outcome) ==
  /\ Len(executed) < MaxExecutes
  /\ xOp' = "execute"
  /\ executed' = Append(executed, command)
  /\ execCwd' = CwdOption(workingDirectory)
  /\ execResult' = ExecuteCompletion(outcome).value
  /\ execRaised' = ExecuteCompletion(outcome).raised
  /\ execOutcome' = outcome
  /\ UNCHANGED <<workingDirectory, lastDirGiven, gotDir>>
  /\ UNCHANGED <<isRunning, lpc, suggestion, answer, display, lineRead, cycleError>>
  /\ UNCHANGED pVars
  /\ UNCHANGED gwVars
  /\ UNCHANGED fVars
  /\ UNCHANGED iVars
  /\ UNCHANGED uVars
  /\ UNCHANGED mVars

\* setWorkingDirectory(dir)
SetWorkingDirectory(dir) ==
  /\ xOp' = "set"
  /\ workingDirectory' = dir
  /\ lastDirGiven' = dir
  /\ UNCHANGED <<gotDir, execCwd, execRaised, execOutcome, executed, execResult>>
  /\ UNCHANGED <<isRunning, lpc, suggestion, answer, display, lineRead, cycleError>>
  /\ UNCHANGED pVars
  /\ UNCHANGED gwVars
  /\ UNCHANGED fVars
  /\ UNCHANGED iVars
  /\ UNCHANGED uVars
  /\ UNCHANGED mVars

\* getWorkingDirectory()
GetWorkingDirectory ==
  /\ xOp' = "get"
  /\ gotDir' = workingDirectory
  /\ UNCHANGED <<workingDirectory, lastDirGiven, execCwd, execRaised, execOutcome, executed,
                 execResult>>
  /\ UNCHANGED <<isRunning, lpc, suggestion, answer, display, lineRead, cycleError>>
  /\ UNCHANGED pVars
  /\ UNCHANGED gwVars
  /\ UNCHANGED fVars
  /\ UNCHANGED iVars
  /\ UNCHANGED uVars
  /\ UNCHANGED mVars

----------------------------------------------------------------------------
(* loadMCPConfig, getDefaultMCPServers, getMCPServers (src/mcp/config.ts). *)

\* The search locations in the order of configPaths: <cwd>/.terminal-ai,
\* <cwd>, <home>/.terminal-ai, <home>/.config/terminal-ai.
ConfigPaths == <<"cwd/.terminal-ai/mcp.json", "cwd/mcp.json",
                 "home/.terminal-ai/mcp.json", "home/.config/terminal-ai/mcp.json">>

\* A server entry.
MCPServerConfig(name) == [name |-> name]
\* A parsed configuration: its servers, or an object without that key.
MCPConfig(servers) == [hasServers |-> TRUE, servers |-> servers]
NoServersKey == [hasServers |-> FALSE, servers |-> <<>>]

\* The file at a location: absent; present and unreadable; present with text
\* that is not JSON; present with JSON text (parsed is what JSON.parse gives).
ConfigFile(kind, parsed) == [kind |-> kind, parsed |-> parsed]
Absent == ConfigFile("absent", NoServersKey)

\* What may lie at the location i: nothing, a file that cannot be read, a file
\* that does not parse, a configuration naming one server of its own.
FilesAt(i) ==
  { Absent, ConfigFile("unreadable", NoServersKey), ConfigFile("invalid", NoServersKey),
    ConfigFile("json", MCPConfig(<<MCPServerConfig(ConfigPaths[i])>>)) }
\* At the first location also a JSON object without servers.
ConfigFileSets ==
  {<<a, b, c, d>> : a \in FilesAt(1) \cup {ConfigFile("json", NoServersKey)},
                    b \in FilesAt(2), c \in FilesAt(3), d \in FilesAt(4)}

Toggles == {Undefined, Str(<<"true">>), Str(<<"false">>), Str(<<"1">>)}
McpEnvs == [op : {"env"}, MCP_FILESYSTEM_ENABLED : Toggles, MCP_GIT_ENABLED : Toggles]

\* The completion of a call.
McpReturned(op, value, logged) ==
  [op |-> op, raised |-> FALSE, value |-> value, logged |-> logged]
McpRaised(op, logged) ==
  [op |-> op, raised |-> TRUE, value |-> NoServersKey, logged |-> logged]

RECURSIVE LoadFromRethrowing(_, _)
\* The search with the catch removed: the first failure leaves the call.
LoadFromRethrowing(files, i) ==
  IF i > Len(files) THEN McpReturned("loadMCPConfig", MCPConfig(<<>>), <<>>)
  ELSE IF files[i].kind = "absent" THEN LoadFromRethrowing(files, i + 1)
  ELSE IF files[i].kind = "json" THEN McpReturned("loadMCPConfig", files[i].parsed, <<>>)
  ELSE McpRaised("loadMCPConfig", <<>>)

RECURSIVE LoadFrom(_, _, _)
\* for (const path of configPaths), from the i-th path on; logged are the
\* paths reported by console.error so far.
LoadFrom(files, i, logged) ==
  IF i > Len(files) THEN McpReturned("loadMCPConfig", MCPConfig(<<>>), logged)
  ELSE IF files[i].kind = "absent" THEN LoadFrom(files, i + 1, logged)
  ELSE IF files[i].kind = "json" THEN McpReturned("loadMCPConfig", files[i].parsed, logged)
  ELSE LoadFrom(files, i + 1, Append(logged, ConfigPaths[i]))

LoadMCPConfigRethrowing(files) == LoadFromRethrowing(files, 1)

LoadMCPConfig(files) == LoadFrom(files, 1, <<>>)

\* if (process.env.MCP_..._ENABLED !== 'false') defaultServers.push(...)
DefaultMCPServers(e) ==
  (IF e.MCP_FILESYSTEM_ENABLED # Str(<<"false">>)
     THEN <<MCPServerConfig("filesystem")>> ELSE <<>>)
  \o (IF e.MCP_GIT_ENABLED # Str(<<"false">>) THEN <<MCPServerConfig("git")>> ELSE <<>>)

\* [...config.servers, ...defaultServers]: spreading undefined is a TypeError.
MCPServers(files, e) ==
  LET loaded == LoadMCPConfig(files)
  IN IF ~loaded.value.hasServers THEN McpRaised("getMCPServers", loaded.logged)
     ELSE McpReturned("getMCPServers", loaded.value.servers \o DefaultMCPServers(e),
                      loaded.logged)

McpCall(completion) ==
  /\ mcpResult = NoCall
  /\ mcpResult' = completion
  /\ UNCHANGED <<snapshotOf, snapshot, configFiles, mcpEnv>>
  /\ UNCHANGED gwVars
  /\ UNCHANGED pVars
  /\ UNCHANGED lVars
  /\ UNCHANGED fVars
  /\ UNCHANGED iVars
  /\ UNCHANGED xVars
  /\ UNCHANGED mVars

\* await loadMCPConfig()
CallLoadMCPConfig == McpCall(LoadMCPConfig(configFiles))
\* getDefaultMCPServers()
CallGetDefaultMCPServers ==
  McpCall(McpReturned("getDefaultMCPServers", DefaultMCPServers(mcpEnv), <<>>))
\* await getMCPServers()
CallGetMCPServers == McpCall(MCPServers(configFiles, mcpEnv))

----------------------------------------------------------------------------
(* main (src/unnamed/part_001).                                            *)

\* How the process is left: process.exit(code) after a last line printed.
Exited(code, printed) == [mpc |-> "exited", code |-> code, printed |-> printed]
\* main goes on to the stage pc.
Goes(pc, printed) == [mpc |-> pc, code |-> -1, printed |-> printed]

\* if (config.provider === 'anthropic' && !config.anthropicApiKey)
Validate(cfg) ==
  IF cfg.provider = Str(<<"anthropic">>) /\ Falsy(cfg.anthropicApiKey)
  THEN Exited(1, "missingKey")
  ELSE Goes("validated", "")

\* After createAIProvider: a throw rejects main and the rejection handler
\* exits; the local provider is checked first; otherwise the loop is set up.
AfterCreate(made) ==
  IF made.kind = "error" THEN Exited(1, "fatal")
  ELSE IF made.class = "ollama" THEN Goes("checking", "")
  ELSE Goes("running", "using")

\* if (!isAvailable)
AfterAvailable(isAvailable) ==
  IF isAvailable THEN Goes("running", "using") ELSE Exited(1, "ollamaDown")

\* A handler that stops the loop and leaves the process alive.
OnSigintStopOnly(installed) ==
  IF installed THEN [mpc |-> "running", code |-> -1, printed |-> "goodbye", stops |-> TRUE]
  ELSE [mpc |-> "killed", code |-> -1, printed |-> "", stops |-> FALSE]

\* SIGINT: the handler of process.on('SIGINT') once it is installed, and
\* before that the default disposition, which ends the process by the signal.
OnSigint(installed) ==
  IF installed THEN [mpc |-> "exited", code |-> 0, printed |-> "goodbye", stops |-> TRUE]
  ELSE [mpc |-> "killed", code |-> -1, printed |-> "", stops |-> FALSE]

\* The environments main is started in: the hosted provider without and with
\* a key, with tools, the local provider, an unrecognized tag.
MainEnvs ==
  { Env(Undefined, Undefined, Undefined, Undefined, Undefined)
    , Env(Undefined, Undefined, Str(<<"sk">>), Undefined, Undefined)
    , Env(Str(<<"anthropic">>), Str(<<"true">>), Str(<<"sk">>), Undefined, Undefined)
    , Env(Str(<<"ollama">>), Undefined, Undefined, Undefined, Undefined)
    , Env(Str(<<"openai">>), Undefined, Str(<<"sk">>), Undefined, Undefined) }

Move(to) ==
  /\ mpc' = to.mpc
  /\ processExit' = to.code
  /\ mainOut' = to.printed

\* const config = getConfigFromEnv() and its validation
MainConfig ==
  /\ mpc = "start"
  /\ config' = ConfigFromEnv(env)
  /\ Move(Validate(config'))
  /\ UNCHANGED <<env, created>>
  /\ UNCHANGED iVars
  /\ UNCHANGED uVars
  /\ UNCHANGED gwVars
  /\ UNCHANGED pVars
  /\ UNCHANGED lVars
  /\ UNCHANGED xVars

\* const aiProvider = createAIProvider(config), to the await or to start()
MainCreate ==
  /\ mpc = "validated"
  /\ created' = CreateAIProvider(config)
  /\ created'.kind = "provider" => created'.class = variant
  /\ Move(AfterCreate(created'))
  /\ UNCHANGED <<env, config>>
  /\ UNCHANGED iVars
  /\ UNCHANGED uVars
  /\ UNCHANGED gwVars
  /\ UNCHANGED pVars
  /\ UNCHANGED lVars
  /\ UNCHANGED xVars

\* await ollamaProvider.isAvailable() resolves
MainAvailable(isAvailable) ==
  /\ mpc = "checking"
  /\ Move(AfterAvailable(isAvailable))
  /\ UNCHANGED fVars
  /\ UNCHANGED iVars
  /\ UNCHANGED uVars
  /\ UNCHANGED gwVars
  /\ UNCHANGED pVars
  /\ UNCHANGED lVars
  /\ UNCHANGED xVars

\* await terminal.start() resolves: main returns and the process ends.
MainReturns ==
  /\ mpc = "running"
  /\ lpc = "returned"
  /\ Move(Exited(0, mainOut))
  /\ UNCHANGED fVars
  /\ UNCHANGED iVars
  /\ UNCHANGED uVars
  /\ UNCHANGED gwVars
  /\ UNCHANGED pVars
  /\ UNCHANGED lVars
  /\ UNCHANGED xVars

\* SIGINT reaches the process.
Interrupt ==
  /\ mpc \notin {"exited", "killed"}
  /\ mpc' = OnSigint(mpc = "running").mpc
  /\ processExit' = OnSigint(mpc = "running").code
  /\ mainOut' = OnSigint(mpc = "running").printed
  /\ isRunning' = (IF OnSigint(mpc = "running").stops THEN FALSE ELSE isRunning)
  /\ UNCHANGED <<lpc, suggestion, answer, display, executed, execResult, workingDirectory,
                 lineRead, cycleError>>
  /\ UNCHANGED fVars
  /\ UNCHANGED iVars
  /\ UNCHANGED uVars
  /\ UNCHANGED gwVars
  /\ UNCHANGED pVars
  /\ UNCHANGED xVars

----------------------------------------------------------------------------
(* Specifications.                                                         *)

ProviderInit ==
  /\ variant \in Variants
  /\ mcpManager \in (IF variant = "mcp" THEN BOOLEAN ELSE {FALSE})
  /\ conversationHistory = <<>>
  /\ ppc = "idle"
  /\ sent = NoRequest
  /\ response = NoResponse
  /\ usedTools = <<>>
  /\ result = NoOutcome
  /\ returned = <<>>
  /\ pOp = "none"
  /\ nreq = 0
  /\ rounds = 0
  /\ userRequest = <<>>
  /\ sinceClear = 0

\* The manager a provider is given: fresh, or after connectToServer of "fs"
\* which declares the tool "r".
ManagerInit ==
  /\ \E wasConnected \in (IF mcpManager THEN BOOLEAN ELSE {FALSE}) :
       /\ clients = (IF wasConnected THEN ConnectClients(<<>>, "fs", 1, TRUE) ELSE <<>>)
       /\ tools = (IF wasConnected THEN ConnectTools(<<>>, "fs", TRUE, TRUE, <<"r">>) ELSE <<>>)
       /\ opened = (IF wasConnected THEN 1 ELSE 0)
       /\ connected = (IF wasConnected THEN {1} ELSE {})
       /\ toolsList = (IF wasConnected THEN <<"r">> ELSE <<>>)
  /\ closeCalled = {}
  /\ calls = <<>>
  /\ gwResult = GwResult("none", "", "", "ok", FALSE, 0)

\* The gateway alone, as the manager of a tool-enabled provider at rest.
Init ==
  /\ GatewayInit /\ ProviderInit /\ LoopInit /\ FactoryIdle /\ variant = "mcp" /\ mcpManager
  /\ RestIdle

SpecGateway == Init /\ [][GatewayNext]_vars

\* new MCPManager(configs) and initialize(), over every list of up to
\* MaxServers configurations and every outcome of each connection.
MaxServers == 3

InitInitialize ==
  /\ GatewayInit /\ ProviderInit /\ LoopInit /\ FactoryIdle /\ variant = "mcp" /\ mcpManager
  /\ MainIdle /\ UtilIdle
  /\ serverConfigs \in SeqsUpTo(ServerNames \cup {"db"}, MaxServers)
  /\ ipc = "running"

NextInitialize ==
  \/ \E connectOk \in BOOLEAN, listOk \in BOOLEAN, listing \in Listings :
       InitializeNext(connectOk, listOk, listing)
  \/ InitializeReturns

SpecInitialize == InitInitialize /\ [][NextInitialize]_vars

\* One provider, called again and again.
InitProvider == ProviderInit /\ ManagerInit /\ LoopInit /\ FactoryIdle /\ RestIdle

\* Nothing but the provider (and, in a tool round, the gateway) moves.
ProviderAlone == UNCHANGED lVars /\ UNCHANGED fVars /\ UNCHANGED xVars /\ UNCHANGED mVars /\ UNCHANGED uVars /\ UNCHANGED iVars

NextProvider ==
  \/ /\ \E request \in UserRequests, context \in Contexts : BeginSuggestion(request, context)
     /\ ProviderAlone
  \/ BackendThrows /\ ProviderAlone
  \/ /\ ppc = "awaiting"
     /\ \E resp \in ResponsesFor(variant, FewTexts) : ReceiveFinal(resp)
     /\ ProviderAlone
  \/ /\ ppc = "awaiting"
     /\ \E resp \in FewToolUseResponses, serverOk \in BOOLEAN : ToolRound(resp, serverOk)
     /\ ProviderAlone
  \/ ClearHistory /\ ProviderAlone
  \/ GetHistory /\ ProviderAlone
  \/ /\ \E changed \in Mutations(returned) : MutateReturned(changed)
     /\ ProviderAlone

SpecProvider == InitProvider /\ [][NextProvider]_vars

\* One getCommandSuggestion on a fresh provider, over all the reply texts.
NextReply ==
  \/ /\ nreq = 0
     /\ \E request \in UserRequests, context \in Contexts : BeginSuggestion(request, context)
     /\ ProviderAlone
  \/ BackendThrows /\ ProviderAlone
  \/ /\ ppc = "awaiting"
     /\ \E resp \in ResponsesFor(variant, ReplyTexts) : ReceiveFinal(resp)
     /\ ProviderAlone
  \/ /\ ppc = "awaiting"
     /\ \E resp \in ToolUseResponses, serverOk \in BOOLEAN : ToolRound(resp, serverOk)
     /\ ProviderAlone

SpecReply == InitProvider /\ [][NextReply]_vars

\* Requests made again after a failure, over the replies without padding.
NextRetry ==
  \/ /\ nreq = 0 \/ result.kind = "error"
     /\ \E request \in UserRequests, context \in Contexts : BeginSuggestion(request, context)
     /\ ProviderAlone
  \/ BackendThrows /\ ProviderAlone
  \/ /\ ppc = "awaiting"
     /\ \E resp \in ResponsesFor(variant, Cores) : ReceiveFinal(resp)
     /\ ProviderAlone
  \/ /\ ppc = "awaiting"
     /\ \E resp \in FewToolUseResponses, serverOk \in BOOLEAN : ToolRound(resp, serverOk)
     /\ ProviderAlone

SpecRetry == InitProvider /\ [][NextRetry]_vars

\* The tool-use loop: calls of getCommandSuggestion on a tool-enabled provider
\* whose backend may ask for a tool on every turn.
MaxTurns == 3

InitToolLoop == InitProvider /\ variant = "mcp"

NextToolLoop ==
  \/ /\ \E request \in UserRequests, context \in Contexts : BeginSuggestion(request, context)
     /\ ProviderAlone
  \/ BackendThrows /\ ProviderAlone
  \/ /\ ppc = "awaiting"
     /\ \E resp \in ResponsesFor(variant, FewTexts) : ReceiveFinal(resp)
     /\ ProviderAlone
  \/ /\ ppc = "awaiting"
     /\ \E resp \in FewToolUseResponses, serverOk \in BOOLEAN :
          ToolRoundWithin(resp, serverOk, MaxTurns, MaxTurns * MaxRequests)
     /\ ProviderAlone

SpecToolLoop == InitToolLoop /\ [][NextToolLoop]_vars

\* The interactive loop with its provider and executor.
InitLoop == ProviderInit /\ ManagerInit /\ LoopInit /\ FactoryIdle /\ RestIdle

Next ==
  \/ Start
  \/ \E ln \in Lines : ReadControl(ln)
  \/ \E ln \in Lines, listing \in LoopListings : ReadRequest(ln, listing)
  \/ BackendThrows /\ AfterProvider
  \/ /\ lpc = "thinking"
     /\ \E resp \in ResponsesFor(variant, FewTexts) : ReceiveFinal(resp) /\ AfterProvider
  \/ /\ lpc = "thinking"
     /\ \E resp \in FewToolUseResponses, serverOk \in BOOLEAN :
          ToolRound(resp, serverOk) /\ AfterProvider
  \/ \E ans \in Answers : Decline(ans)
  \/ \E ans \in Answers : Confirm(ans)
  \/ \E outcome \in ShellOutcomes : Executed(outcome)
  \/ Stop

Spec == InitLoop /\ [][Next]_vars

\* The lines of the runs in which any stage of a request may fail: a request
\* and exit.
CycleLines == {Str(<<"exit">>), Str(<<"w", "list", "w">>)}

\* The loop fed with requests, every stage of which may fail.
NextCycle ==
  \/ Start
  \/ \E ln \in CycleLines : ReadControl(ln)
  \/ \E ln \in CycleLines, listing \in LoopListings : ReadRequest(ln, listing)
  \/ \E ln \in CycleLines : ContextFails(ln)
  \/ BackendThrows /\ AfterProvider
  \/ /\ lpc = "thinking"
     /\ \E resp \in ResponsesFor(variant, FewTexts) : ReceiveFinal(resp) /\ AfterProvider
  \/ /\ lpc = "thinking"
     /\ \E resp \in FewToolUseResponses, serverOk \in BOOLEAN :
          ToolRound(resp, serverOk) /\ AfterProvider
  \/ \E ans \in Answers : Decline(ans)
  \/ \E ans \in Answers : Confirm(ans)
  \/ ConfirmFails
  \/ \E outcome \in ShellOutcomes : Executed(outcome)
  \/ Stop

SpecCycle == InitLoop /\ [][NextCycle]_vars

\* The whole process: main from its first line, the loop it starts, and
\* SIGINT at any moment. main attaches no MCPManager to the provider.
InitMain ==
  /\ GatewayInit /\ ProviderInit /\ LoopInit
  /\ mcpManager = FALSE
  /\ env \in MainEnvs /\ config = NoConfig /\ created = NotCreated
  /\ mpc = "start" /\ processExit = -1 /\ mainOut = ""
  /\ UtilIdle /\ InitializeIdle

NextMain ==
  \/ MainConfig
  \/ MainCreate
  \/ \E isAvailable \in BOOLEAN : MainAvailable(isAvailable)
  \/ mpc = "running" /\ created.kind = "provider" /\ NextCycle
  \/ MainReturns
  \/ Interrupt

SpecMain == InitMain /\ [][NextMain]_vars

\* getSystemContext alone, on every directory and listing.
InitContext ==
  /\ GatewayInit /\ ProviderInit /\ ManagerInit /\ LoopInit /\ FactoryIdle /\ MainIdle
  /\ InitializeIdle
  /\ snapshotOf \in [op : {"getSystemContext"}, workingDir : SnapshotDirectories,
                      listing : DirListings]
  /\ snapshot = NoCall
  /\ configFiles = <<>> /\ mcpEnv = NoCall /\ mcpResult = NoCall

NextContext == GetSystemContext

SpecContext == InitContext /\ [][NextContext]_vars

\* The configuration of the tool servers, over every state of the four
\* locations and of the two toggles.
InitConfig ==
  /\ GatewayInit /\ ProviderInit /\ ManagerInit /\ LoopInit /\ FactoryIdle /\ MainIdle
  /\ InitializeIdle
  /\ variant = "anthropic"
  /\ snapshotOf = NoCall /\ snapshot = NoCall
  /\ configFiles \in ConfigFileSets /\ mcpEnv \in McpEnvs /\ mcpResult = NoCall

NextConfig ==
  \/ CallLoadMCPConfig
  \/ CallGetDefaultMCPServers
  \/ CallGetMCPServers

SpecConfig == InitConfig /\ [][NextConfig]_vars

\* Start-up: the configuration is read and the provider created.
InitFactory ==
  /\ GatewayInit /\ ProviderInit /\ LoopInit /\ FactoryInit /\ variant = "anthropic"
  /\ RestIdle

NextFactory == GetConfigFromEnv \/ CreateProvider

SpecFactory == InitFactory /\ [][NextFactory]_vars

\* An executor of its own: any order of execute, setWorkingDirectory and
\* getWorkingDirectory.
InitExecutor ==
  /\ GatewayInit /\ ProviderInit /\ FactoryIdle /\ variant = "anthropic"
  /\ PromptInit /\ ExecutorInit(Directories)
  /\ RestIdle

NextExecutor ==
  \/ \E command \in ShellCommands, outcome \in AllShellOutcomes :
       ExecuteCommand(command, outcome)
  \/ \E dir \in Directories : SetWorkingDirectory(dir)
  \/ GetWorkingDirectory

SpecExecutor == InitExecutor /\ [][NextExecutor]_vars

----------------------------------------------------------------------------
(* Claims.                                                                 *)

Shows(kind, value) == \E i \in 1..Len(display) : display[i] = Printed(kind, value)

\* C1: execute is invoked only with the command of the suggestion that
\* getCommandSuggestion returned in the current request cycle, after that
\* command was printed and the confirmation was answered affirmatively; a
\* declining answer ends the cycle without a call of execute, and the loop
\* goes back to its head (the next prompt while isRunning holds).
C1_ExecuteOnlyConfirmed ==
  [][ /\ executed' # executed =>
           /\ lpc = "confirm"
           /\ ~Falsy(answer')
           /\ ppc = "idle" /\ result.kind = "ok"
           /\ userRequest = Trim(userRequest)
           /\ executed' = Append(executed, GetProp(result.suggestion, KeyCommand))
           /\ Shows("command", Shown(GetProp(result.suggestion, KeyCommand)))
           /\ ~Shows("skipped", <<>>)
      /\ (lpc = "confirm" /\ lpc' # "confirm" /\ Falsy(answer')) =>
           /\ executed' = executed
           /\ lpc' = (IF isRunning THEN "prompt" ELSE "returned")
           /\ nreq' = nreq
    ]_vars

\* One request was confirmed and executed, the next was declined, and the
\* loop is at the following prompt.
C1_Witness ==
  /\ Len(executed) = 1
  /\ nreq = 2
  /\ lpc = "prompt"
  /\ answer = JFalse
  /\ Shows("skipped", <<>>)

IsPrefix(a, b) == Len(a) <= Len(b) /\ SubSeq(b, 1, Len(a)) = a

\* A getCommandSuggestion has run to its end and nothing was called since.
CallEnded == ppc = "idle" /\ result.kind # "none"

\* The history one successful call leaves behind when it started empty.
TwoEntries ==
  <<Message("user", userRequest), Message("assistant", JSONStringify(result.suggestion))>>

\* C2 as stated: for every provider variant, getHistory() after one
\* successful getCommandSuggestion on an empty history returns exactly the
\* user message and the assistant message, and returns the empty sequence
\* after clearHistory().
C2_Original ==
  /\ (CallEnded /\ result.kind = "ok" /\ sinceClear = 1 /\ pOp = "getHistory")
       => returned = TwoEntries
  /\ (sinceClear = 0 /\ pOp = "getHistory") => returned = <<>>

\* C2, amended: the same, for a call in which no tool round took place
\* (each tool round of the tool-enabled provider adds two more entries).
C2_HistoryRoundTrip ==
  /\ (CallEnded /\ result.kind = "ok" /\ sinceClear = 1 /\ pOp = "getHistory" /\ rounds = 0)
       => returned = TwoEntries
  /\ (sinceClear = 0 /\ pOp = "getHistory") => returned = <<>>

C2_Witness ==
  /\ variant = "mcp" /\ mcpManager
  /\ CallEnded /\ result.kind = "ok" /\ sinceClear = 1 /\ pOp = "getHistory" /\ rounds = 0
  /\ Len(returned) = 2

\* C3: getHistory() returns a snapshot: a caller changing the returned array
\* changes neither the provider's history (hence no later getHistory()
\* result) nor the messages of a backend call, which are the provider's
\* history.
C3_SnapshotIndependent ==
  /\ [][(pOp = "getHistory" /\ pOp' = "mutate")
          => conversationHistory' = conversationHistory]_vars
  /\ [](ppc = "awaiting" =>
          sent.messages = (IF variant = "ollama"
                           THEN <<sent.messages[1]>> \o conversationHistory
                           ELSE conversationHistory))

C3_Witness ==
  /\ ppc = "awaiting"
  /\ nreq = 2
  /\ returned # <<>>
  /\ ~IsPrefix(returned, conversationHistory)

\* C4: the conversation history only grows by appending, or is emptied by
\* clearHistory.
C4_AppendOnly ==
  [][\/ IsPrefix(conversationHistory, conversationHistory')
     \/ (pOp' = "clearHistory" /\ conversationHistory' = <<>>)]_vars

C4_Witness ==
  /\ nreq = 2 /\ sinceClear = 1
  /\ CallEnded /\ result.kind = "ok"
  /\ Len(conversationHistory) = 2

\* The reply was text around one serialized valid suggestion v.
Embeds(v) ==
  \E pre \in Pads, post \in Pads : response = TextResponse(pre \o JSONStringify(v) \o post)

\* C5 as stated: whatever text surrounds one valid suggestion object in the
\* reply, the provider returns a suggestion equal to that object.
C5_Original ==
  \A v \in ValidSuggestions :
    (CallEnded /\ rounds = 0 /\ Embeds(v)) => result = Returned(v)

\* C6: the hosted provider throws, and returns no suggestion, when the reply
\* is not a text block, when its text has no {...} region, and when the
\* region does not parse; the tool-enabled one likewise, its first case being
\* a reply with no text block.
C6_ResponseFormatErrors ==
  /\ (variant = "anthropic" /\ CallEnded /\ ~response.throws) =>
       LET content == response.content[1]
           jsonMatch == MatchBraces(content.text)
       IN /\ content.type # "text" => result = Thrown("UnexpectedResponseType")
          /\ (content.type = "text" /\ ~jsonMatch.found)
               => result = Thrown("CouldNotParseJSON")
          /\ (content.type = "text" /\ jsonMatch.found /\ ~JSONParse(jsonMatch.text).ok)
               => result = Thrown("SyntaxError")
          /\ result.kind = "error" => conversationHistory = <<Message("user", userRequest)>>
  /\ (variant = "mcp" /\ CallEnded /\ ~response.throws
        /\ ~WantsTool(variant, response, mcpManager)) =>
       LET textContent == FirstOfType(response.content, "text")
           jsonMatch == MatchBraces(textContent.block.text)
       IN /\ ~textContent.found => result = Thrown("NoTextResponse")
          /\ (textContent.found /\ ~jsonMatch.found) => result = Thrown("CouldNotParseJSON")
          /\ (textContent.found /\ jsonMatch.found /\ ~JSONParse(jsonMatch.text).ok)
               => result = Thrown("SyntaxError")

C6_Witness ==
  /\ variant = "anthropic" /\ CallEnded
  /\ result = Thrown("SyntaxError")
  /\ \E v \in ValidSuggestions : Embeds(v)

\* What the local provider parsed from the reply, when it parsed anything.
OllamaParsed ==
  LET responseText == response.content[1].text
      whole == JSONParse(responseText)
  IN IF whole.ok THEN Returned(whole.val) ELSE ParseMatched(responseText)

\* C7 as stated: the local provider throws 'Invalid response format from AI'
\* for every parsed reply without explanation or without a dangerous key, and
\* accepts one with command, explanation and dangerous: false.
C7_Original ==
  (variant = "ollama" /\ CallEnded /\ ~response.throws /\ OllamaParsed.kind = "ok") =>
    LET v == OllamaParsed.suggestion
    IN /\ (v = JNull \/ GetProp(v, KeyExplanation) = Undefined
             \/ GetProp(v, KeyDangerous) = Undefined)
            => result = Thrown("InvalidResponseFormat")
       /\ (\E cmd \in Commands : v = Suggestion(cmd, <<"a">>, JFalse))
            => result = Returned(v)

\* A call to callTool ended, and nothing else was done to the manager since.
CallToolEnded == gwResult.op = "callTool"

\* C8: callTool with a name that is not registered throws 'Tool <name> not
\* found', forwards nothing and leaves both maps as they were.
C8_UnknownToolNotFound ==
  [][(gwResult' # gwResult /\ gwResult'.op = "callTool" /\ ~HasKey(tools, gwResult'.tool))
       => /\ gwResult'.status = "ToolNotFound"
          /\ gwResult'.threw
          /\ calls' = calls
          /\ clients' = clients
          /\ tools' = tools]_vars

C8_Witness ==
  /\ CallToolEnded
  /\ gwResult.status = "ToolNotFound"
  /\ tools # <<>>
  /\ calls # <<>>

\* C9 as stated: on an empty manager, callTool for a tool some server would
\* declare throws 'MCP server <name> not connected'.
C9_Original ==
  (CallToolEnded /\ clients = <<>> /\ gwResult.tool \in ToolNames)
    => gwResult.status = "ServerNotConnected"

\* C9, amended: on an empty manager no tool is registered, and callTool
\* throws 'Tool <name> not found'.
C9_EmptyGatewayToolNotFound ==
  (CallToolEnded /\ clients = <<>>)
    => (tools = <<>> /\ gwResult.status = "ToolNotFound" /\ gwResult.threw)

C9_Witness ==
  /\ CallToolEnded
  /\ opened = 0
  /\ gwResult.tool = "r"

\* C10 as stated: connectToServer never throws, and after a failed connect
\* or a failed listing the server is not among the connected servers and has
\* no tool in the registry.
C10_Original ==
  (gwResult.op = "connect" /\ gwResult.status # "ok") =>
    /\ ~gwResult.threw
    /\ gwResult.logged = 1
    /\ ~HasKey(clients, gwResult.server)
    /\ \A i \in 1..Len(tools) : tools[i].v.serverName # gwResult.server

\* C11 as stated: after disconnect() both maps are empty and nothing was
\* thrown, whichever close() calls failed, and close() was called on every
\* connection that was live, i.e. whose client.connect had resolved.
C11_Original ==
  gwResult.op = "disconnect" =>
    /\ clients = <<>>
    /\ tools = <<>>
    /\ ~gwResult.threw
    /\ connected \subseteq closeCalled

Declares(listing, t) == \E i \in 1..Len(listing) : listing[i] = t

\* C12: the registry holds at most one entry per tool name; after a
\* successful connectToServer every tool the server declared is owned by that
\* server, whoever owned the name before; an entry changes owner in no other
\* way; and a forwarded callTool goes to the client of the tool's owner.
C12_LastConnectWins ==
  /\ [](/\ \A i, j \in 1..Len(tools) : tools[i].k = tools[j].k => i = j
        /\ \A i \in 1..Len(tools) : tools[i].v.name = tools[i].k
        /\ (gwResult.op = "connect" /\ gwResult.status = "ok") =>
             (\A t \in ToolNames :
                Declares(toolsList, t) =>
                  (HasKey(tools, t) /\ Get(tools, t).serverName = gwResult.server)))
  /\ [][(\A t \in ToolNames :
            (HasKey(tools', t) /\ (~HasKey(tools, t) \/ Get(tools', t) # Get(tools, t)))
              => (/\ gwResult'.op = "connect" /\ gwResult'.status = "ok"
                  /\ Declares(toolsList', t)))
        /\ ((gwResult'.op = "callTool" /\ calls' # calls) =>
              LET c == calls'[Len(calls')]
              IN /\ calls' = Append(calls, c)
                 /\ c.tool = gwResult'.tool
                 /\ c.server = Get(tools, c.tool).serverName
                 /\ c.conn = Get(clients, c.server))]_vars

\* "fs" declared r and g, "git" connected later and declared r: r is owned
\* by "git" and callTool("r") went to the client of "git".
C12_Witness ==
  /\ opened = 2
  /\ HasKey(clients, "fs") /\ HasKey(clients, "git")
  /\ Get(clients, "fs") = 1 /\ Get(clients, "git") = 2
  /\ tools = <<Member("r", MCPTool("r", "git")), Member("g", MCPTool("g", "fs"))>>
  /\ gwResult.op = "callTool" /\ gwResult.status = "ok" /\ gwResult.tool = "r"
  /\ calls # <<>>
  /\ calls[Len(calls)] = [server |-> "git", conn |-> 2, tool |-> "r"]

\* The names callTool was invoked with, in order, in a run of one
\* getCommandSuggestion that returned: every invocation was forwarded.
InvokedTools == [i \in 1..Len(calls) |-> calls[i].tool]

\* C13 as stated: the usedTools of a suggestion the tool-enabled provider
\* returns are the names callTool was invoked with during the call, in order,
\* and there is no usedTools when no tool was invoked.
C13_Original ==
  (variant = "mcp" /\ CallEnded /\ result.kind = "ok") =>
    GetProp(result.suggestion, KeyUsedTools)
      = (IF InvokedTools = <<>> THEN Undefined ELSE UsedToolsValue(InvokedTools))

\* The reply asks for a tool: stop_reason 'tool_use' and a tool_use block.
SignalsToolRequest(resp) ==
  resp.stop_reason = "tool_use" /\ FirstOfType(resp.content, "tool_use").found

\* A reply of the backend was handled by the tool-enabled provider in this step.
ReplyHandled ==
  /\ variant = "mcp" /\ ppc = "awaiting"
  /\ (rounds' # rounds \/ ppc' # ppc)
  /\ ~response'.throws

\* C14: the tool loop runs an iteration exactly when the latest reply asks
\* for a tool and a manager is attached: callTool is invoked and, unless it
\* throws, the two tool messages are appended and the backend is asked
\* again. Otherwise the loop is left: nothing is called and nothing but the
\* final assistant message is appended, and the call ends with the outcome of
\* the text extraction. That is so in particular when a tool is asked for
\* and no manager is attached.
C14_ToolLoop ==
  [][ReplyHandled =>
       IF SignalsToolRequest(response') /\ mcpManager
       THEN /\ rounds' = rounds + 1
            /\ gwResult'.op = "callTool"
            /\ gwResult'.tool = FirstOfType(response'.content, "tool_use").block.name
            /\ IF gwResult'.threw
               THEN ppc' = "idle" /\ result' = Thrown(gwResult'.status)
                    /\ conversationHistory' = conversationHistory
               ELSE /\ ppc' = "awaiting"
                    /\ Len(conversationHistory') = Len(conversationHistory) + 2
                    /\ IsPrefix(conversationHistory, conversationHistory')
                    /\ sent'.messages = conversationHistory'
       ELSE /\ ppc' = "idle"
            /\ rounds' = rounds
            /\ calls' = calls /\ gwResult' = gwResult
            /\ usedTools' = usedTools
            /\ result' = ExtractMCP(response', usedTools)
            /\ conversationHistory' =
                 (IF result'.kind = "ok"
                  THEN Append(conversationHistory,
                              Message("assistant", JSONStringify(result'.suggestion)))
                  ELSE conversationHistory)
    ]_vars

\* A tool was asked for, no manager is attached, and the call returned the
\* suggestion of the reply's text block: nothing was called, and the history
\* holds the request and the suggestion only.
C14_Witness ==
  /\ variant = "mcp" /\ ~mcpManager
  /\ CallEnded /\ result.kind = "ok"
  /\ SignalsToolRequest(response)
  /\ calls = <<>> /\ gwResult.op = "none" /\ usedTools = <<>>
  /\ Len(conversationHistory) = 2
----------------------------------------------------------------------------
(* Start-up claims (SpecFactory).                                          *)

Hosted == Str(<<"anthropic">>)
Local == Str(<<"ollama">>)
FactoryEnded == created # NotCreated

\* C15: createAIProvider fails with a configuration error, constructing no
\* provider, exactly when the tag is the hosted one and no API key is present
\* (unset or empty) or the tag is neither hosted nor local; in every other
\* case it returns a constructed provider, the local one built with the given
\* host and model or, where one is absent (unset or empty), with the default.
C15_FactoryErrors ==
  FactoryEnded =>
    /\ created.kind \in {"error", "provider"}
    /\ created.kind = "error" <=>
         \/ config.provider = Hosted /\ Falsy(config.anthropicApiKey)
         \/ config.provider \notin {Hosted, Local}
    /\ created.kind = "error" => created.class = ""
    /\ (config.provider = Hosted /\ Falsy(config.anthropicApiKey)) =>
         created.error = "ApiKeyRequired"
    /\ config.provider \notin {Hosted, Local} => created.error = "UnsupportedProvider"
    /\ created.kind = "provider" => created.class \in Variants
    /\ config.provider = Local =>
         /\ created.kind = "provider" /\ created.class = "ollama"
         /\ created.host = (IF Falsy(config.ollamaHost) THEN DefaultHost ELSE config.ollamaHost)
         /\ created.model =
              (IF Falsy(config.ollamaModel) THEN DefaultModel ELSE config.ollamaModel)
    /\ (config.provider = Hosted /\ created.kind = "provider") =>
         created.apiKey = config.anthropicApiKey

\* An unrecognized tag has been refused.
C15_Witness ==
  /\ FactoryEnded
  /\ config.provider = Str(<<"openai">>)
  /\ created = ConfigurationError("UnsupportedProvider")

\* C16: createAIProvider returns the tool-enabled hosted provider if and only
\* if the tag is hosted, an API key is present and enableMCP is set; with the
\* hosted tag, a key and enableMCP unset it returns the plain hosted provider;
\* with the local tag it returns the local provider whatever enableMCP is.
\* A configuration read from the environment has enableMCP set exactly when
\* ENABLE_MCP is the text "true".
C16_ToolProviderSelection ==
  FactoryEnded =>
    /\ (created.kind = "provider" /\ created.class = "mcp") <=>
         /\ config.provider = Hosted
         /\ ~Falsy(config.anthropicApiKey)
         /\ ~Falsy(config.enableMCP)
    /\ (config.provider = Hosted /\ ~Falsy(config.anthropicApiKey) /\ Falsy(config.enableMCP)) =>
         (created.kind = "provider" /\ created.class = "anthropic")
    /\ config.provider = Local => (created.kind = "provider" /\ created.class = "ollama")
    /\ env # EmptyEnv =>
         /\ config.enableMCP = (IF env.ENABLE_MCP = Str(<<"true">>) THEN JTrue ELSE JFalse)
         /\ (created.class = "mcp") <=>
              /\ env.AI_PROVIDER \in {Undefined, Str(<<>>), Hosted}
              /\ ~Falsy(env.ANTHROPIC_API_KEY)
              /\ env.ENABLE_MCP = Str(<<"true">>)

\* The tool-enabled provider has been built from the environment.
C16_Witness ==
  /\ FactoryEnded
  /\ env # EmptyEnv
  /\ env.ENABLE_MCP = Str(<<"true">>)
  /\ created.kind = "provider"
  /\ created.class = "mcp"

----------------------------------------------------------------------------
(* Executor claims (SpecExecutor).                                         *)

ExecuteEnded == xOp = "execute"

\* C17: execute never raises: whatever the command and however the shell
\* invocation ends (success, non-zero exit, spawn failure, output over the
\* size ceiling, kill by a signal), the call ends by returning a result with
\* stdout, stderr and exitCode.
C17_ExecuteNeverRaises ==
  ExecuteEnded =>
    /\ ~execRaised
    /\ execResult # NoExecution
    /\ execResult.exitCode # Undefined

\* An execute whose output went over the size ceiling has returned.
C17_Witness ==
  /\ ExecuteEnded
  /\ ~execRaised
  /\ execResult.exitCode = Str(<<"ERR_CHILD_PROCESS_STDIO_MAXBUFFER">>)

\* The text of a captured stream after trimming; nothing when none was captured.
Captured(stream) == IF stream.type = "str" THEN Trim(stream.s) ELSE <<>>
\* The failure carries an exit status.
CarriesExitCode(outcome) == outcome.code.type = "lit" /\ outcome.code \notin {JNull, Lit("0")}

\* C18: on success execute returns the trimmed stdout and stderr with exit
\* code 0; on failure it returns the trimmed partial stdout (empty if none),
\* the trimmed stderr or, when that is empty, the failure's message, and the
\* failure's exit code, or 1 when the failure carries no exit code.
C18_Original ==
  ExecuteEnded =>
    IF execOutcome.ok
    THEN execResult = ExecutionResult(Trim(execOutcome.stdout.s), Trim(execOutcome.stderr.s),
                                      Lit("0"))
    ELSE /\ execResult.stdout = Captured(execOutcome.stdout)
         /\ execResult.stderr = (IF Captured(execOutcome.stderr) # <<>>
                                 THEN Captured(execOutcome.stderr) ELSE execOutcome.message)
         /\ execResult.exitCode = (IF CarriesExitCode(execOutcome) THEN execOutcome.code
                                   ELSE Lit("1"))

\* C19: the working directory is one field: getWorkingDirectory returns the
\* directory last given to setWorkingDirectory, or to the constructor when
\* none was set; every execute runs the command in that directory; and no
\* execute changes the field, whatever the command.
C19_WorkingDirectoryField ==
  /\ [](/\ workingDirectory = lastDirGiven
        /\ xOp = "get" => gotDir = lastDirGiven
        /\ xOp = "execute" => execCwd = lastDirGiven)
  /\ [][executed' # executed =>
          /\ workingDirectory' = workingDirectory
          /\ execCwd' = workingDirectory]_vars

\* A cd command has been executed in the directory set before it, and the
\* field still names that directory.
C19_Witness ==
  /\ xOp = "execute"
  /\ executed # <<>>
  /\ executed[Len(executed)] = Str(<<"cd", "w", "/custom/dir">>)
  /\ execOutcome.ok
  /\ workingDirectory = "/test/dir"
  /\ execCwd = "/test/dir"

----------------------------------------------------------------------------
(* Interactive loop: the lines that are no request (Spec).                 *)

\* A prompt has been answered: promptLoop ran on the line lineRead'.
PromptAnswered == lpc = "prompt" /\ <<lpc, lineRead, display>>' # <<lpc, lineRead, display>>
LineText(ln) == IF ln.type = "str" THEN Trim(ln.s) ELSE <<>>
BlankLine(ln) == Falsy(ln) \/ (ln.type = "str" /\ Trim(ln.s) = <<>>)
\* Neither the provider nor the executor was called.
NoSuggestionNoExecute ==
  /\ nreq' = nreq /\ sent' = sent /\ ppc' = ppc /\ result' = result
  /\ executed' = executed /\ execResult' = execResult /\ execCwd' = execCwd
  /\ UNCHANGED gwVars

\* C20: when a prompt is answered with a blank, whitespace-only or absent
\* line, the loop goes back to its head with neither the provider nor the
\* executor called; with exit or quit the farewell is printed, isRunning is
\* cleared and start() returns; with clear, clearHistory is called (the
\* history is emptied by that one call), neither getCommandSuggestion nor
\* execute is called, and the loop goes back to its head.
C20_ControlLines ==
  [][PromptAnswered =>
       /\ BlankLine(lineRead') =>
            (/\ lpc' = LoopCheck(isRunning)
             /\ isRunning' = isRunning
             /\ display' = <<>>
             /\ NoSuggestionNoExecute
             /\ UNCHANGED pVars)
       /\ LineText(lineRead') \in {<<"exit">>, <<"quit">>} =>
            (/\ display' = <<Printed("goodbye", <<>>)>>
             /\ ~isRunning'
             /\ lpc' = "returned"
             /\ NoSuggestionNoExecute
             /\ UNCHANGED pVars)
       /\ LineText(lineRead') = <<"clear">> =>
            (/\ pOp' = "clearHistory"
             /\ conversationHistory' = <<>>
             /\ sinceClear' = 0
             /\ NoSuggestionNoExecute
             /\ display' = <<Printed("cleared", <<>>)>>
             /\ isRunning' = isRunning
             /\ lpc' = LoopCheck(isRunning))]_vars

\* After a request was answered, clear has been typed: the history is empty
\* and the loop prompts again.
C20_Witness ==
  /\ lineRead = Str(<<"clear">>)
  /\ pOp = "clearHistory"
  /\ nreq >= 1
  /\ executed # <<>>
  /\ conversationHistory = <<>>
  /\ lpc = "prompt"

----------------------------------------------------------------------------
(* Interactive loop: failures inside a request cycle (SpecCycle).          *)

\* A stage of the cycle in progress has just raised an error.
CycleFailed ==
  /\ cycleError' # ""
  /\ <<cycleError, lpc, display>>' # <<cycleError, lpc, display>>

\* C21: an error raised by the context snapshot, by getCommandSuggestion or
\* by the confirmation prompt (execute raises none) is caught in the cycle
\* that raised it and printed; isRunning is left as it was, no command is
\* executed in that cycle, and the loop goes back to its head.
C21_CycleErrorsCaught ==
  /\ [](lpc # "crashed" /\ (lpc \in {"confirm", "executing"} => cycleError = ""))
  /\ [][CycleFailed =>
          /\ display' # <<>>
          /\ display'[Len(display')] = Printed("caught", <<cycleError'>>)
          /\ isRunning' = isRunning
          /\ executed' = executed
          /\ execResult' = execResult
          /\ lpc' = LoopCheck(isRunning)]_vars

\* After a first request was executed, the provider failed on the second
\* one: the error is reported and the loop prompts again.
C21_Witness ==
  /\ cycleError \notin {"", "userInfo", "prompts"}
  /\ nreq = 2
  /\ Len(executed) = 1
  /\ isRunning
  /\ lpc = "prompt"
  /\ display = <<Printed("caught", <<cycleError>>)>>

----------------------------------------------------------------------------
(* C22: how the process ends.                                              *)

ProcessGone == mpc \in {"exited", "killed"}
HandlerInstalled == mpc = "running"
\* A step in which SIGINT is delivered.
Interrupted == ~ProcessGone /\ (mainOut' = "goodbye" \/ mpc' = "killed")
\* A step in which the process leaves by itself.
Leaves == ~ProcessGone /\ mpc' = "exited" /\ mainOut' # "goodbye"
MissingKey == config.provider = Hosted /\ Falsy(config.anthropicApiKey)
StartupAndQuitCodes ==
  /\ [](mpc = "exited" /\ mainOut = "missingKey"
          => processExit = 1 /\ created = NotCreated /\ lpc = "new")
  /\ [](mpc = "validated" => ~MissingKey)
  /\ [](mpc \in {"start", "validated", "checking"} => lpc = "new")
  /\ [][mpc = "start" /\ Leaves => MissingKey' /\ processExit' = 1]_vars
  /\ [][Leaves /\ mpc \in {"validated", "checking"}
          => mainOut' \in {"fatal", "ollamaDown"} /\ processExit' = 1 /\ lpc' = "new"]_vars
  /\ [][mpc = "running" /\ Leaves => lpc = "returned" /\ processExit' = 0]_vars
  /\ [](mpc = "exited" => processExit \in {0, 1})
  /\ [][ProcessGone => UNCHANGED vars]_vars

\* C22 as stated: exit 1 on missing configuration (before a provider is
\* constructed or the loop started) and on a startup failure, exit 0 on a
\* graceful quit, and on every interrupt exit 0 right after the farewell,
\* with no further stage of a request in flight.
C22_Original ==
  /\ StartupAndQuitCodes
  /\ [][Interrupted
          => /\ mpc' = "exited"
             /\ processExit' = 0
             /\ mainOut' = "goodbye"
             /\ <<lpc, display, executed, execResult, sent, conversationHistory>>'
                  = <<lpc, display, executed, execResult, sent, conversationHistory>>]_vars

\* C22 amended: the same, with the interrupt clause for an interrupt that
\* arrives once main has installed its handler; an earlier one ends the
\* process by the signal, with no farewell and no exit code.
C22_ExitCodes ==
  /\ StartupAndQuitCodes
  /\ [][Interrupted /\ HandlerInstalled
          => /\ mpc' = "exited"
             /\ processExit' = 0
             /\ mainOut' = "goodbye"
             /\ <<lpc, display, executed, execResult, sent, conversationHistory>>'
                  = <<lpc, display, executed, execResult, sent, conversationHistory>>]_vars
  /\ [][Interrupted /\ ~HandlerInstalled => mpc' = "killed" /\ processExit' = -1]_vars

\* The process was interrupted while a command ran, and left with 0.
C22_Witness ==
  /\ mpc = "exited" /\ processExit = 0 /\ mainOut = "goodbye"
  /\ lpc = "executing" /\ ~isRunning

\* The process was interrupted while it waited for the local server.
C22_Counterexample ==
  /\ mpc = "killed" /\ config.provider = Local /\ created.kind = "provider" /\ lpc = "new"

----------------------------------------------------------------------------
(* C23: the context snapshot.                                              *)

RECURSIVE SplitLines(_)
\* text.split('\n')
SplitLines(text) ==
  IF \A i \in 1..Len(text) : text[i] # LineBreak THEN <<text>>
  ELSE LET i == CHOOSE k \in 1..Len(text) :
                  text[k] = LineBreak /\ \A j \in 1..(k - 1) : text[j] # LineBreak
       IN <<SubSeq(text, 1, i - 1)>> \o SplitLines(SubSeq(text, i + 1, Len(text)))

SnapshotTaken == snapshot # NoCall
Listed == IF snapshotOf.listing.ok THEN snapshotOf.listing.files ELSE <<>>
BreaksLine(name) == \E i \in 1..Len(name) : name[i] = LineBreak
\* The five lines of the snapshot of the call made.
FiveLines ==
  << <<"cwd:", snapshotOf.workingDir>>, <<"user:", "u">>, <<"os:", "linux">>,
     <<"home:", "/home/u">>,
     <<"files:">> \o (IF Listed = <<>> THEN <<"empty">> ELSE Join(Listed)) >>

----------------------------------------------------------------------------
(* C24, C25: the configuration of the tool servers.                        *)

\* The locations whose file exists, is read and parses.
Parseable == {i \in 1..Len(configFiles) : configFiles[i].kind = "json"}
FirstParseable == CHOOSE i \in Parseable : \A j \in Parseable : i <= j
Loaded == mcpResult.op = "loadMCPConfig"

\* C24: loadMCPConfig returns the content of the first location, in the order
\* project-local hidden directory, project root, user-home hidden directory,
\* user config directory, that exists, is read and parses; no read or parse
\* failure leaves the call; with no such location it returns {servers: []}.
C24_FirstParseableWins ==
  /\ ConfigPaths = <<"cwd/.terminal-ai/mcp.json", "cwd/mcp.json",
                     "home/.terminal-ai/mcp.json", "home/.config/terminal-ai/mcp.json">>
  /\ Loaded =>
       /\ ~mcpResult.raised
       /\ mcpResult.value = IF Parseable = {} THEN [hasServers |-> TRUE, servers |-> <<>>]
                            ELSE configFiles[FirstParseable].parsed
       /\ \A i \in Parseable :
            i # FirstParseable => mcpResult.value # configFiles[i].parsed

\* The first location does not parse, the second is absent, the third and the
\* fourth parse: the third's content is returned.
C24_Witness ==
  /\ Loaded
  /\ configFiles[1].kind = "invalid" /\ configFiles[2].kind = "absent"
  /\ configFiles[3].kind = "json" /\ configFiles[4].kind = "json"
  /\ mcpResult.value.servers = <<[name |-> "home/.terminal-ai/mcp.json"]>>

IsTrue(toggle) == toggle = Str(<<"true">>)
\* The defaults the claim describes.
EnabledDefaults ==
  (IF IsTrue(mcpEnv.MCP_FILESYSTEM_ENABLED) THEN <<[name |-> "filesystem"]>> ELSE <<>>)
  \o (IF IsTrue(mcpEnv.MCP_GIT_ENABLED) THEN <<[name |-> "git"]>> ELSE <<>>)

\* C25 as stated: getDefaultMCPServers includes the filesystem (the git)
\* server only when MCP_FILESYSTEM_ENABLED (MCP_GIT_ENABLED) is 'true', not
\* when it is unset or has another value, and getMCPServers returns the
\* configured servers followed by the enabled defaults.
C25_Original ==
  /\ mcpResult.op = "getDefaultMCPServers" => mcpResult.value = EnabledDefaults
  /\ mcpResult.op = "getMCPServers" /\ ~mcpResult.raised =>
       mcpResult.value =
         (IF Parseable = {} THEN <<>> ELSE configFiles[FirstParseable].parsed.servers)
           \o EnabledDefaults

----------------------------------------------------------------------------
(* C26: one request cycle at a time.                                       *)

\* The stage changes handleUserRequest and the loop can make: from the prompt
\* into a cycle, through its stages in order, and from any stage back to the
\* loop head.
StageOrder ==
  { <<"new", "prompt">>, <<"prompt", "thinking">>, <<"thinking", "confirm">>,
    <<"confirm", "executing">> }
    \cup {<<from, to>> : from \in {"prompt", "thinking", "confirm", "executing"},
                         to \in {"prompt", "returned"}}
BackendOutstanding == ppc = "awaiting"
CommandRunning == lpc = "executing"
\* A step that reads a line.
ReadsLine == lineRead' # lineRead \/ nreq' # nreq \/ (lpc = "prompt" /\ display' # display)

\* C26: at most one request cycle is in progress: a line is read only at the
\* loop head, with no backend call outstanding and no command running; the
\* stages of a cycle follow in the order snapshot and backend call,
\* confirmation, execution; a backend call is outstanding only in the first
\* stage and a command is started only from the confirmation and completed
\* before the loop head is reached again.
C26_OneCycleAtATime ==
  /\ [](BackendOutstanding => lpc = "thinking")
  /\ [](lpc \in {"confirm", "executing"} => ~BackendOutstanding /\ result.kind = "ok")
  /\ [][ReadsLine => lpc = "prompt" /\ ~BackendOutstanding /\ ~CommandRunning]_vars
  /\ [][lpc' # lpc => <<lpc, lpc'>> \in StageOrder]_vars
  /\ [][sent' # sent => lpc' = "thinking" \/ lpc = "thinking"]_vars
  /\ [][executed' # executed =>
          /\ lpc = "confirm" /\ lpc' = "executing"
          /\ Len(executed') = Len(executed) + 1]_vars
  /\ [][execResult' # execResult \/ execOutcome' # execOutcome =>
          lpc = "executing" /\ lpc' # "executing"]_vars
  /\ [][lpc = "executing" /\ lpc' # lpc => execOutcome' \in ShellOutcomes]_vars

\* The second cycle's command runs after the first cycle's command completed.
C26_Witness ==
  /\ lpc = "executing" /\ Len(executed) = 2 /\ nreq = 2
  /\ execOutcome \in ShellOutcomes /\ ~BackendOutstanding

----------------------------------------------------------------------------
(* C27: stop().                                                            *)

InIteration == lpc \in {"prompt", "thinking", "confirm", "executing"}
\* A step of stop() during an iteration (exit and quit clear the flag too, and
\* leave the loop in the same step).
Stops == isRunning /\ ~isRunning' /\ ~(lpc = "prompt" /\ lineRead' # lineRead)
Stopped == ~isRunning /\ InIteration

\* C27: stop() only clears the running flag; the iteration in progress goes
\* on through its stages, a pending confirmation can still be answered and the
\* confirmed command is executed and completes; when the iteration ends no
\* prompt is issued any more and start() returns.
C27_StopIsCooperative ==
  /\ [][Stops =>
          /\ InIteration
          /\ <<lpc, suggestion, answer, display, executed, execResult, workingDirectory,
               lineRead, cycleError>>'
               = <<lpc, suggestion, answer, display, executed, execResult,
                   workingDirectory, lineRead, cycleError>>
          /\ UNCHANGED pVars /\ UNCHANGED xVars /\ UNCHANGED gwVars]_vars
  /\ [][Stopped /\ lpc' # lpc =>
          <<lpc, lpc'>> \in {<<"prompt", "thinking">>, <<"thinking", "confirm">>,
                             <<"confirm", "executing">>}
            \cup {<<from, "returned">> : from \in {"prompt", "thinking", "confirm",
                                                    "executing"}}]_vars
  /\ [](Stopped /\ lpc = "confirm" => ENABLED (\E ans \in Answers : Confirm(ans)))
  /\ [](Stopped /\ lpc = "executing" =>
          ENABLED (\E outcome \in ShellOutcomes : Executed(outcome)))
  /\ [](lpc = "returned" => ~isRunning)
  /\ [][lpc = "returned" => lpc' = "returned" /\ ~isRunning']_vars

\* stop() was called while the backend was thinking; the command was then
\* confirmed and executed, and start() returned.
C27_Witness ==
  /\ lpc = "returned" /\ ~isRunning
  /\ Len(executed) = 1 /\ execOutcome \in ShellOutcomes
  /\ display # <<>> /\ display[Len(display)] # Printed("goodbye", <<>>)
  /\ ~Falsy(lineRead) /\ Trim(lineRead.s) = <<"list">>

----------------------------------------------------------------------------
(* C28: the confirmation's default and the danger warning.                 *)

Asking == lpc = "confirm"
FlaggedDangerous == GetProp(suggestion, KeyDangerous) = JTrue
WarningAt == {i \in 1..Len(display) : display[i].kind = "warning"}
ConfirmAt == {i \in 1..Len(display) : display[i].kind = "confirm"}

\* C28: when the confirmation is asked, it proposes 'yes' exactly when the
\* suggestion is not flagged dangerous and 'no' when it is, and the warning
\* has been printed, before the confirmation, exactly when it is flagged.
C28_ConfirmDefault ==
  Asking =>
    /\ ConfirmAt = {Len(display)}
    /\ display[Len(display)].value = <<IF FlaggedDangerous THEN "no" ELSE "yes">>
    /\ IF FlaggedDangerous THEN WarningAt = {Len(display) - 1} ELSE WarningAt = {}

\* A dangerous suggestion: the warning, then the confirmation proposing no.
C28_Witness ==
  /\ Asking /\ FlaggedDangerous
  /\ display[Len(display) - 1] = Printed("warning", <<>>)
  /\ display[Len(display)] = Printed("confirm", <<"no">>)

----------------------------------------------------------------------------
(* C29, C30: the tool-use loop.                                            *)

\* A tool round whose tool call succeeded.
RoundDone == rounds' = rounds + 1 /\ ppc' = "awaiting"
\* getCommandSuggestion returns a suggestion.
Succeeds == ppc = "awaiting" /\ ppc' = "idle" /\ result'.kind = "ok"
Begins == nreq' = nreq + 1
ToolResultOf(message) == JSONParse(message.content).val

\* C29: a tool round appends two messages, the assistant's with the raw
\* content of the reply and then the user's with the tool result, and calls
\* the backend with the history so extended; a call that succeeds after k
\* rounds has appended 2k+2 messages: the request, k such pairs, the suggestion.
C29_TwoMessagesPerRound ==
  /\ [][RoundDone =>
          LET n == Len(conversationHistory)
              h == conversationHistory'
          IN /\ Len(h) = n + 2
             /\ SubSeq(h, 1, n) = conversationHistory
             /\ h[n + 1] = [role |-> "assistant",
                            content |-> JSONStringify(ContentValue(response'.content))]
             /\ h[n + 2].role = "user"
             /\ GetProp(ToolResultOf(h[n + 2]), <<"type">>) = Str(<<"tool_result">>)
             /\ GetProp(ToolResultOf(h[n + 2]), <<"tool_use_id">>)
                  = Str(<<FirstOfType(response'.content, "tool_use").block.id>>)
             /\ GetProp(ToolResultOf(h[n + 2]), <<"content">>)
                  = Str(JSONStringify(ToolResultContent))
             /\ sent'.messages = h]_vars
  /\ [][Begins =>
          /\ conversationHistory' = Append(conversationHistory, [role |-> "user",
                                                                 content |-> userRequest'])
          /\ rounds' = 0]_vars
  /\ [][conversationHistory' # conversationHistory => Begins \/ RoundDone \/ Succeeds]_vars
  /\ [][Succeeds =>
          LET h == conversationHistory'
              first == Len(h) - 2 * rounds - 1
          IN /\ Len(h) = Len(conversationHistory) + 1
             /\ first >= 1
             /\ h[first] = [role |-> "user", content |-> userRequest]
             /\ \A j \in 1..rounds :
                  h[first + 2 * j - 1].role = "assistant" /\ h[first + 2 * j].role = "user"
             /\ h[Len(h)] = [role |-> "assistant",
                             content |-> JSONStringify(result'.suggestion)]]_vars

\* The first call succeeded after two tool rounds: six messages.
C29_Witness ==
  /\ ppc = "idle" /\ result.kind = "ok" /\ nreq = 1 /\ rounds = 2
  /\ Len(conversationHistory) = 2 * rounds + 2

\* The reply asks for a tool: the stop reason and a tool_use block.
RequestsTool(resp) ==
  /\ ~resp.throws
  /\ resp.stop_reason = "tool_use"
  /\ \E i \in 1..Len(resp.content) : resp.content[i].type = "tool_use"
CallEnds == ppc = "awaiting" /\ ppc' = "idle"
ToolCallFails == rounds' = rounds + 1 /\ result'.kind = "error"
\* The manager can serve the tool "r".
CanServe == mcpManager /\ \E i \in 1..Len(tools) : tools[i].k = "r"

\* C30: with a manager attached the call ends only at a turn where the
\* backend did not ask for a tool, or where the tool call failed; a turn that
\* asks for a tool whose call succeeds goes on to the next backend call,
\* whatever the number of rounds made so far.
C30_NoTurnLimit ==
  /\ [][CallEnds /\ mcpManager => ~RequestsTool(response') \/ ToolCallFails]_vars
  /\ [][rounds' = rounds + 1 /\ ~ToolCallFails =>
          /\ ppc' = "awaiting"
          /\ Len(conversationHistory') = Len(conversationHistory) + 2]_vars
  /\ [](ppc = "awaiting" /\ CanServe /\ variant = "mcp" /\ rounds < MaxTurns
          /\ Len(calls) < MaxTurns * MaxRequests
          => ENABLED (ToolRoundWithin(Response(FALSE, "tool_use", <<ToolUseBlock("r", "id1")>>),
                                      TRUE, MaxTurns, MaxTurns * MaxRequests)
                      /\ ProviderAlone))
  /\ [](ppc = "awaiting" => Len(conversationHistory) >= 2 * rounds + 1)

\* As many rounds as explored, and the call still waits for the backend.
C30_Witness ==
  /\ ppc = "awaiting" /\ mcpManager /\ rounds = MaxTurns /\ nreq = 1
  /\ Len(conversationHistory) = 2 * MaxTurns + 1

----------------------------------------------------------------------------
(* C31: a failing tool call in the interactive loop.                       *)

\* A step of the loop in which callTool is made and throws one of the
\* gateway's own two errors.
GatewayRefuses ==
  /\ rounds' = rounds + 1
  /\ gwResult'.op = "callTool"
  /\ gwResult'.status \in {"ToolNotFound", "ServerNotConnected"}

\* C31: when callTool fails with ToolNotFound or ServerNotConnected in a tool
\* round, getCommandSuggestion fails with that error, the round's two
\* messages are not appended, the loop's catch prints the error, no command is
\* executed for the request and the loop goes back to its head.
C31_ToolFailurePropagates ==
  [][GatewayRefuses =>
       /\ ppc' = "idle"
       /\ result' = [kind |-> "error", suggestion |-> Undefined,
                     error |-> gwResult'.status]
       /\ conversationHistory' = conversationHistory
       /\ sent' = sent
       /\ calls' = calls
       /\ cycleError' = gwResult'.status
       /\ display' = <<[kind |-> "caught", value |-> <<gwResult'.status>>]>>
       /\ executed' = executed
       /\ execResult' = execResult
       /\ suggestion' = Undefined
       /\ lpc' = (IF isRunning THEN "prompt" ELSE "returned")]_vars

\* An unknown tool was asked for: the error is on display, nothing was
\* executed and the loop prompts again.
C31_Witness ==
  /\ cycleError = "ToolNotFound" /\ lpc = "prompt" /\ ppc = "idle"
  /\ display = <<[kind |-> "caught", value |-> <<"ToolNotFound">>]>>
  /\ executed = <<>> /\ nreq = 1

----------------------------------------------------------------------------
(* C32: what a backend call carries.                                       *)

\* The messages of the request without the local backend's system message.
Carried ==
  IF variant = "ollama" THEN SubSeq(sent.messages, 2, Len(sent.messages))
  ELSE sent.messages
SystemMessages == {i \in 1..Len(sent.messages) : sent.messages[i].role = "system"}

InitializeTurn == ipc = "running" /\ opened' = opened + 1
Registered(tl, listing, name) ==
  \A i \in 1..Len(listing) :
    HasKey(tl, listing[i]) /\ Get(tl, listing[i]).serverName = name

\* C33: initialize() attempts the configured servers one at a time in the
\* order of the configuration, and returns only when every one was attempted;
\* whatever happened to the servers before it, a server that connects and
\* lists is connected and its tools registered; a server that fails registers
\* nothing and leaves what the others registered; initialize never throws.
C33_InitializeAttemptsAll ==
  /\ [][InitializeTurn =>
          /\ gwResult'.op = "connect"
          /\ gwResult'.server = serverConfigs[opened']
          /\ ipc' = "running"
          /\ gwResult'.status = "ok" =>
               /\ HasKey(clients', gwResult'.server)
               /\ Get(clients', gwResult'.server) = opened'
               /\ Registered(tools', toolsList', gwResult'.server)
          /\ gwResult'.status # "ok" => tools' = tools
          /\ gwResult'.status = "connectFailed" => clients' = clients]_vars
  /\ [](ipc # "threw")
  /\ [](opened <= Len(serverConfigs))
  /\ [](ipc = "returned" => opened = Len(serverConfigs))

\* Two servers configured: the first failed to connect, the second is
\* connected with its tools registered, and initialize has returned.
C33_Witness ==
  /\ ipc = "returned" /\ Len(serverConfigs) = 2
  /\ connected = {2}
  /\ Keys(clients) = {serverConfigs[2]}
  /\ tools # <<>> /\ Registered(tools, toolsList, serverConfigs[2])

Owners == {tools[i].v.serverName : i \in 1..Len(tools)}

\* C34: after any sequence of connectToServer, callTool and disconnect, the
\* failed ones included, the server that owns a registered tool is a key of
\* the connection map, and no callTool ends with ServerNotConnected (it can
\* end with ToolNotFound).
C34_OwnersAreConnected ==
  /\ Owners \subseteq Keys(clients)
  /\ gwResult.status # "ServerNotConnected"

\* Tools were registered, disconnect() emptied both maps, and a call of a
\* tool that had been listed ends with ToolNotFound.
C34_Witness ==
  /\ gwResult.op = "callTool" /\ gwResult.status = "ToolNotFound"
  /\ closeCalled # {} /\ clients = <<>> /\ tools = <<>>
  /\ \E i \in 1..Len(toolsList) : toolsList[i] = gwResult.tool

Fails == ppc = "awaiting" /\ ppc' = "idle" /\ result'.kind = "error"
LastTwoRoles(messages) ==
  <<messages[Len(messages) - 1].role, messages[Len(messages)].role>>

\* C35: a getCommandSuggestion that fails leaves the history as it was when
\* the failure arose: the user message it pushed stays, last, and no
\* assistant message answers it; the request that follows pushes its own user
\* message behind it, and the backend is sent both, one after the other.
C35_FailureKeepsUserMessage ==
  /\ [][Fails =>
          /\ conversationHistory' = conversationHistory
          /\ conversationHistory[Len(conversationHistory)].role = "user"
          /\ rounds = 0 =>
               conversationHistory[Len(conversationHistory)] = Message("user", userRequest)]_vars
  /\ [][result.kind = "error" /\ conversationHistory # <<>> /\ nreq' = nreq + 1 =>
          /\ conversationHistory' =
               Append(conversationHistory, Message("user", userRequest'))
          /\ LastTwoRoles(conversationHistory') = <<"user", "user">>
          /\ Carried' = conversationHistory']_vars

\* The local provider's first request failed; the second was sent with the
\* two requests in a row and was rejected for the format of its reply: the
\* history holds the two requests and nothing else.
C35_Witness ==
  /\ variant = "ollama" /\ ppc = "idle" /\ nreq = 2
  /\ result = Thrown("InvalidResponseFormat")
  /\ Carried = conversationHistory
  /\ Len(conversationHistory) = 2
  /\ LastTwoRoles(conversationHistory) = <<"user", "user">>

ExecuteReturned == xOp = "execute" /\ lpc # "executing"
SuccessBranch(r) == ResultLines(r)[1] = Printed("success", <<>>)

\* C36: the result of execute has exit code 0 exactly when the shell
\* invocation ended without a failure; a failure gives a code other than 0,
\* which is 1 when the failure carries the code 0, null or none; so the
\* loop's test of the exit code takes the success branch for the commands
\* that succeeded and for no other.
C36_ZeroIffSucceeded ==
  /\ ExecuteReturned =>
       /\ execResult.exitCode = Lit("0") <=> execOutcome.ok
       /\ SuccessBranch(execResult) <=> execOutcome.ok
       /\ (~execOutcome.ok /\ execOutcome.code \in {Lit("0"), JNull, Undefined})
            => execResult.exitCode = Lit("1")
  /\ Shows("success", <<>>) => execOutcome.ok

\* The invocation failed with the code 0: execute reports 1 and the loop
\* would take its error branch.
C36_Witness ==
  /\ ExecuteReturned
  /\ ~execOutcome.ok /\ execOutcome.code = Lit("0")
  /\ execResult.exitCode = Lit("1")
  /\ ~SuccessBranch(execResult)

\* connectToServer under a name that has a connection, the connect resolving.
Reconnects ==
  /\ gwResult'.op = "connect" /\ opened' = opened + 1
  /\ HasKey(clients, gwResult'.server)
  /\ opened' \in connected'
Redeclared(t) == gwResult'.status = "ok" /\ Declares(toolsList', t)

\* C37: a connectToServer under a name that is connected stores the new
\* connection in place of the earlier one and closes nothing; the tools in
\* the registry that the new listing does not declare stay as they were, and
\* a call of one of them goes to the connection now stored under its owner's
\* name; nothing but disconnect() removes a tool or a connection, or closes one.
C37_ReconnectReplaces ==
  [][/\ Reconnects =>
          /\ Get(clients', gwResult'.server) = opened'
          /\ Get(clients, gwResult'.server) < opened'
          /\ Keys(clients') = Keys(clients)
          /\ closeCalled' = closeCalled
          /\ \A t \in ToolNames :
               (HasKey(tools, t) /\ ~Redeclared(t)) =>
                 (HasKey(tools', t) /\ Get(tools', t) = Get(tools, t))
     /\ (gwResult'.op = "callTool" /\ calls' # calls) =>
          calls'[Len(calls')].conn = Get(clients, Get(tools, gwResult'.tool).serverName)
     /\ (~(Keys(tools) \subseteq Keys(tools')) \/ ~(Keys(clients) \subseteq Keys(clients'))
           \/ closeCalled' # closeCalled) => gwResult'.op = "disconnect"]_vars

\* "fs" was connected and declared r, was connected again and declared g only:
\* r is still registered, the first connection was not closed, and
\* callTool("r") went to the second connection.
C37_Witness ==
  /\ opened = 2 /\ connected = {1, 2} /\ closeCalled = {}
  /\ clients = <<Member("fs", 2)>>
  /\ toolsList = <<"g">>
  /\ tools = <<Member("r", MCPTool("r", "fs")), Member("g", MCPTool("g", "fs"))>>
  /\ gwResult.op = "callTool" /\ gwResult.tool = "r"
  /\ calls # <<>>
  /\ calls[Len(calls)] = [server |-> "fs", conn |-> 2, tool |-> "r"]

\* The local provider's call ended on a reply that parsed to an object.
OllamaObject ==
  /\ variant = "ollama" /\ CallEnded /\ ~response.throws
  /\ OllamaParsed.kind = "ok" /\ OllamaParsed.suggestion.type = "obj"
PresentFalsy(v, key) == GetProp(v, key) # Undefined /\ Falsy(GetProp(v, key))

\* C38: the local provider throws 'Invalid response format from AI' for a
\* parsed object whose command or explanation is present but is the empty
\* string or another falsy value; dangerous is tested for absence only: with
\* command and explanation in order, dangerous: false and dangerous: null are
\* accepted and the object is returned and pushed to the history.
C38_FalsyRejectedNullAccepted ==
  OllamaObject =>
    LET v == OllamaParsed.suggestion
    IN /\ (PresentFalsy(v, KeyCommand) \/ PresentFalsy(v, KeyExplanation))
            => /\ result = Thrown("InvalidResponseFormat")
               /\ conversationHistory = <<Message("user", userRequest)>>
       /\ (/\ ~Falsy(GetProp(v, KeyCommand)) /\ ~Falsy(GetProp(v, KeyExplanation))
           /\ GetProp(v, KeyDangerous) \in {JFalse, JNull})
            => /\ result = Returned(v)
               /\ conversationHistory = <<Message("user", userRequest),
                                          Message("assistant", JSONStringify(v))>>

\* A reply whose command is the empty string was rejected for its format.
C38_Witness ==
  /\ OllamaObject
  /\ GetProp(OllamaParsed.suggestion, KeyCommand) = Str(<<>>)
  /\ GetProp(OllamaParsed.suggestion, KeyExplanation) = Str(<<"a">>)
  /\ GetProp(OllamaParsed.suggestion, KeyDangerous) = JFalse
  /\ result = Thrown("InvalidResponseFormat")

\* A turn of the tool loop: callTool was invoked for the reply response'.
ToolTurn == rounds' = rounds + 1
ToolUseBlocks(resp) == SelectSeq(resp.content, LAMBDA b : b.type = "tool_use")
\* The tool-result messages of a history that answer the tool use with this id.
ResultsFor(history, id) ==
  {i \in 1..Len(history) :
     /\ history[i].role = "user"
     /\ GetProp(ToolResultOf(history[i]), <<"type">>) = Str(<<"tool_result">>)
     /\ GetProp(ToolResultOf(history[i]), <<"tool_use_id">>) = Str(<<id>>)}

\* C39: a turn of the tool loop handles the first tool-use block of the reply
\* and no other: callTool is invoked once, with the name of that block, and a
\* turn whose call succeeds appends one tool-result message, which answers
\* that block; the further tool-use blocks of the reply are not invoked and
\* the turn appends no tool-result message that answers them.
C39_FirstToolUseOnly ==
  [][ToolTurn =>
       LET blocks == ToolUseBlocks(response')
           n == Len(conversationHistory)
       IN /\ blocks # <<>>
          /\ usedTools' = Append(usedTools, blocks[1].name)
          /\ gwResult'.op = "callTool" /\ gwResult'.tool = blocks[1].name
          /\ \/ calls' = calls
             \/ /\ Len(calls') = Len(calls) + 1
                /\ calls'[Len(calls')].tool = blocks[1].name
          /\ Len(conversationHistory') \in {n, n + 2}
          /\ ppc' = "awaiting" =>
               /\ Len(conversationHistory') = n + 2
               /\ SubSeq(conversationHistory', 1, n) = conversationHistory
               /\ ResultsFor(conversationHistory', blocks[1].id)
                    = ResultsFor(conversationHistory, blocks[1].id) \cup {n + 2}
               /\ \A i \in 2..Len(blocks) :
                    blocks[i].id # blocks[1].id =>
                      ResultsFor(conversationHistory', blocks[i].id)
                        = ResultsFor(conversationHistory, blocks[i].id)]_vars

\* The reply asked for r and for g: r alone was called, one tool result was
\* appended, and the backend was called again.
C39_Witness ==
  /\ ppc = "awaiting" /\ rounds = 1
  /\ Len(ToolUseBlocks(response)) = 2
  /\ usedTools = <<"r">>
  /\ Len(calls) = 1 /\ calls[1].tool = "r"
  /\ ResultsFor(conversationHistory, "id1") = {3}
  /\ ResultsFor(conversationHistory, "id2") = {}

\* The object lacks command, explanation or dangerous.
Lacks(v) == \E key \in {KeyCommand, KeyExplanation, KeyDangerous} : GetProp(v, key) = Undefined
\* What a hosted provider parsed from the text block it reads.
HostedParsed ==
  LET textContent == FirstOfType(response.content, "text")
  IN IF ~textContent.found \/ (variant = "anthropic" /\ response.content[1].type # "text")
     THEN Thrown("NoTextResponse")
     ELSE ParseMatched(textContent.block.text)
HostedEnded ==
  /\ variant \in {"anthropic", "mcp"} /\ CallEnded /\ ~response.throws
  /\ ~WantsTool(variant, response, mcpManager)
LastMessage == conversationHistory[Len(conversationHistory)]

\* C40: the hosted provider and the tool-enabled one return whatever object
\* the JSON region of the reply parses to: an object that lacks command,
\* explanation or dangerous is returned as the suggestion (with usedTools
\* attached after tool rounds) and pushed to the history as the assistant
\* message, and no error is raised; the local provider rejects such an object
\* and pushes nothing.
C40_HostedDoNotValidate ==
  /\ (HostedEnded /\ HostedParsed.kind = "ok" /\ Lacks(HostedParsed.suggestion)) =>
       /\ result = Returned(IF variant = "mcp"
                            THEN AttachUsedTools(HostedParsed.suggestion, usedTools)
                            ELSE HostedParsed.suggestion)
       /\ LastMessage = Message("assistant", JSONStringify(result.suggestion))
  /\ (OllamaObject /\ Lacks(OllamaParsed.suggestion)) =>
       /\ result = Thrown("InvalidResponseFormat")
       /\ conversationHistory = <<Message("user", userRequest)>>

\* The hosted provider was answered with an object that has a command and
\* nothing else: it returned that object and pushed it to the history.
C40_Witness ==
  /\ HostedEnded /\ variant = "anthropic"
  /\ result = Returned(Obj(<<Member(KeyCommand, Str(<<"a">>))>>))
  /\ conversationHistory =
       <<Message("user", userRequest),
         Message("assistant", JSONStringify(Obj(<<Member(KeyCommand, Str(<<"a">>))>>)))>>

====
